---------------------------- MODULE Spec2Model ----------------------------
(***************************************************************************)
(* A model of the transaction log server (fdbserver/TLogServer.actor.cpp): *)
(* the TLogQueue framing over the raw disk queue, the per-generation       *)
(* LogData state machine (commit, queue commit, pop, spill, peek, lock,    *)
(* recruitment) and the recovery of the persistent state after a crash.    *)
(***************************************************************************)
EXTENDS Integers, Sequences, FiniteSets, TLC

(***************************************************************************)
(* Bounds of the model.                                                    *)
(***************************************************************************)
\* records pushed through TLogQueue::push in the framing specification
MaxRecs == 2
\* payload bytes of one framed record in the framing specification
MaxPayload == 2

(***************************************************************************)
(* Program constants.                                                      *)
(***************************************************************************)
\* sizeof(uint32_t): the width of the payloadSize field of a frame
HeaderSize == 4
\* the value of validFlag written by TLogQueue::push
ValidFlag == 1

(***************************************************************************)
(* Generic helpers.                                                        *)
(***************************************************************************)
Max(a, b) == IF a >= b THEN a ELSE b
Min(a, b) == IF a <= b THEN a ELSE b

RECURSIVE SeqSum(_)
SeqSum(s) == IF s = <<>> THEN 0 ELSE Head(s) + SeqSum(Tail(s))

RECURSIVE Flatten(_)
Flatten(ss) == IF ss = <<>> THEN <<>> ELSE Head(ss) \o Flatten(Tail(ss))

Prefix(s, n) == SubSeq(s, 1, Min(n, Len(s)))

(***************************************************************************)
(* TLogQueue framing: uint32 payloadSize, payload, uint8 validFlag.        *)
(***************************************************************************)
Byte == 0..255

\* little-endian bytes of a uint32 (wr << uint32_t; *(uint32_t*)wr.getData() = ...)
LE32(n) == << n % 256, (n \div 256) % 256, (n \div 65536) % 256, (n \div 16777216) % 256 >>

\* memcpy(&payloadSize, h.begin(), h.size()) into a zero-initialised int
RECURSIVE FromLE(_)
FromLE(h) == IF h = <<>> THEN 0 ELSE Head(h) + 256 * FromLE(Tail(h))

\* the bytes TLogQueue::push hands to IDiskQueue::push for one payload
FramePush(payload) == LE32(Len(payload)) \o payload \o << ValidFlag >>

\* IDiskQueue::readNext(n) of the recovery cursor: at most n bytes from pos
RawRead(bytes, pos, n) == SubSeq(bytes, pos + 1, Min(pos + n, Len(bytes)))

\* One call of TLogQueue::readNext on the surviving bytes, cursor at pos.
\* Result: kind "entry" with the payload, or "eos" with the zero fill.
RECURSIVE ReadNextSkipInvalid(_, _)
ReadNextSkipInvalid(bytes, pos) ==
    LET h == RawRead(bytes, pos, HeaderSize) IN
    IF Len(h) # HeaderSize
    THEN [kind |-> "eos", payload |-> <<>>, pos |-> pos + Len(h),
          zeroFill |-> IF Len(h) > 0 THEN (HeaderSize - Len(h)) + FromLE(h) + 1 ELSE 0]
    ELSE LET payloadSize == FromLE(h)
             e == RawRead(bytes, pos + HeaderSize, payloadSize + 1) IN
         IF Len(e) # payloadSize + 1
         THEN [kind |-> "eos", payload |-> <<>>, pos |-> pos + HeaderSize + Len(e),
               zeroFill |-> payloadSize + 1 - Len(e)]
         ELSE IF e[payloadSize + 1] # 0
              THEN [kind |-> "entry", payload |-> SubSeq(e, 1, payloadSize),
                    pos |-> pos + HeaderSize + payloadSize + 1, zeroFill |-> 0]
              ELSE ReadNextSkipInvalid(bytes, pos + HeaderSize + payloadSize + 1)

\* a reader that returns a frame without looking at its valid flag
RECURSIVE ReadNextIgnoreFlag(_, _)
ReadNextIgnoreFlag(bytes, pos) ==
    LET h == RawRead(bytes, pos, HeaderSize) IN
    IF Len(h) # HeaderSize
    THEN [kind |-> "eos", payload |-> <<>>, pos |-> pos + Len(h),
          zeroFill |-> IF Len(h) > 0 THEN (HeaderSize - Len(h)) + FromLE(h) + 1 ELSE 0]
    ELSE LET payloadSize == FromLE(h)
             e == RawRead(bytes, pos + HeaderSize, payloadSize + 1) IN
         [kind |-> "entry", payload |-> Prefix(e, payloadSize),
          pos |-> pos + HeaderSize + Len(e), zeroFill |-> 0]

\* a reader that pushes no zero bytes when the queue ends inside a frame
ReadNextNoFill(bytes, pos) == [ReadNextSkipInvalid(bytes, pos) EXCEPT !.zeroFill = 0]

\* a reader that ends the stream at a whole frame whose valid flag is zero
ReadNextStopAtInvalid(bytes, pos) ==
    LET h == RawRead(bytes, pos, HeaderSize)
        e == RawRead(bytes, pos + HeaderSize, FromLE(h) + 1) IN
    IF Len(h) = HeaderSize /\ Len(e) = FromLE(h) + 1 /\ e[Len(e)] = 0
    THEN [kind |-> "eos", payload |-> <<>>, pos |-> pos, zeroFill |-> 0]
    ELSE ReadNextSkipInvalid(bytes, pos)

ReadNext(bytes, pos) == ReadNextSkipInvalid(bytes, pos)

\* for(i < zeroFillSize) queue->push("\0")
RECURSIVE Zeros(_)
Zeros(n) == IF n <= 0 THEN <<>> ELSE << 0 >> \o Zeros(n - 1)

(***************************************************************************)
(* Versions, tags and messages.                                            *)
(***************************************************************************)
\* the largest commit version the model submits
MaxVersion == 2
\* the number of LogData generations one process ever holds
MaxGens == 2

\* SERVER_KNOBS values, scaled down to the model's message sizes
MsgBytes == 1
VERSION_MESSAGES_ENTRY_BYTES_WITH_OVERHEAD == 1
TLOG_MESSAGE_BLOCK_OVERHEAD_FACTOR == 2
TLOG_MESSAGE_BLOCK_BYTES == 2
MAX_QUEUE_COMMIT_BYTES == 3
TLOG_SPILL_REFERENCE_MAX_ITEMS_PER_BATCH == 2
TLOG_SPILL_THRESHOLD == 4
REFERENCE_SPILL_UPDATE_STORAGE_BYTE_LIMIT == 2

tagLocalitySpecial == -1
tagLocalityLogRouter == -2
tagLocalitySatellite == -5
tagLocalityInvalid == -99
invalidVersion == -1

Tag(locality, id) == [locality |-> locality, id |-> id]
txsTag == Tag(tagLocalitySpecial, 1)
T0 == Tag(0, 0)
T1 == Tag(0, 1)
LR0 == Tag(tagLocalityLogRouter, 0)
LR1 == Tag(tagLocalityLogRouter, 1)
Tags == {txsTag, T0, T1, LR0, LR1}

NoTagData == [absent |-> TRUE]
NoGen == [absent |-> TRUE]
GenIds == 1..MaxGens

\* TagsAndMessage: the tags of a message; sub numbers it inside its version
Msg(sub, tags) == [sub |-> sub, tags |-> tags]
SeqToSet(s) == { s[i] : i \in 1..Len(s) }

RECURSIVE SelectSeqBy(_, _, _)
\* the elements e of s with key(e) = k kept (keep = TRUE) or removed
SelectSeqBy(s, keep, K) ==
    IF s = <<>> THEN <<>>
    ELSE IF (Head(s).version \in K) = keep
         THEN << Head(s) >> \o SelectSeqBy(Tail(s), keep, K)
         ELSE SelectSeqBy(Tail(s), keep, K)

(***************************************************************************)
(* LogData and TagData.                                                    *)
(***************************************************************************)
\* TagData::TagData
NewTagData(tag, popped, poppedLocation, nothingPersistent, poppedRecently, unpoppedRecovered) ==
    [ tag |-> tag, popped |-> popped, poppedLocation |-> poppedLocation,
      nothingPersistent |-> nothingPersistent, poppedRecently |-> poppedRecently,
      requiresPoppedLocationUpdate |-> FALSE, unpoppedRecovered |-> unpoppedRecovered,
      versionMessages |-> <<>> ]

\* LogData::createTagData: the LogData with the new TagData installed
createTagData(ld, tag, popped, nothingPersistent, poppedRecently, unpoppedRecovered) ==
    LET p == IF /\ tag.locality # tagLocalityLogRouter
                /\ ld.allTags # {}
                /\ tag \notin ld.allTags
                /\ popped <= ld.recoveredAt
             THEN ld.recoveredAt + 1 ELSE popped
    IN [ld EXCEPT !.tag_data[tag] =
           NewTagData(tag, p, 0, nothingPersistent, poppedRecently, unpoppedRecovered)]

\* LogData::LogData
NewLogData(logId, logRouterTags, allTags) ==
    [ logId |-> logId, stopped |-> FALSE, initialized |-> FALSE, removed |-> FALSE,
      version |-> 0, queueCommittedVersion |-> 0, queueCommittingVersion |-> 0,
      persistentDataVersion |-> 0, persistentDataDurableVersion |-> 0,
      knownCommittedVersion |-> 0, durableKnownCommittedVersion |-> 0,
      minKnownCommittedVersion |-> 0, queuePoppedVersion |-> 0,
      versionLocation |-> {}, version_sizes |-> {}, messageBlocks |-> <<>>,
      blockFree |-> 0,
      tag_data |-> [t \in Tags |-> NoTagData],
      unpoppedRecoveredTags |-> 0, bytesInput |-> 0, bytesDurable |-> 0,
      recoveryComplete |-> "unset", committingQueue |-> "unset", stopCommit |-> 0,
      unrecoveredBefore |-> 1, recoveredAt |-> 1,
      logRouterTags |-> logRouterTags, locality |-> tagLocalityInvalid,
      allTags |-> allTags, execOpCommitInProgress |-> FALSE,
      execOpLock |-> [holder |-> << >>, waiters |-> << >>],
      serving |-> FALSE, firstPrev |-> 0, startPc |-> "new",
      lock |-> [pc |-> "none", stopVersion |-> 0],
      req |-> [recover |-> FALSE] ]

\* the tag a message's tag is stored under, or the empty set when it is dropped
StoredTags(ld, tag) ==
    IF ld.locality = tagLocalitySatellite /\ ~(tag = txsTag \/ tag.locality = tagLocalityLogRouter)
    THEN {}
    ELSE IF ld.locality # tagLocalitySatellite
            /\ ~(ld.locality = tagLocalitySpecial \/ ld.locality = tag.locality \/ tag.locality < 0)
    THEN {}
    ELSE IF tag.locality = tagLocalityLogRouter
    THEN IF ld.logRouterTags = 0 THEN {} ELSE { Tag(tag.locality, tag.id % ld.logRouterTags) }
    ELSE { tag }

\* commitMessages, the loop over msg.tags of one message. st carries the LogData
\* and the running expectedBytes, txsBytes and overheadBytes.
RECURSIVE commitMessageTags(_, _, _, _)
commitMessageTags(st, version, msg, i) ==
    IF i > Len(msg.tags) THEN st
    ELSE LET stored == StoredTags(st.ld, msg.tags[i]) IN
         IF stored = {} THEN commitMessageTags(st, version, msg, i + 1)
         ELSE LET tag == CHOOSE t \in stored : TRUE
                  ld1 == IF st.ld.tag_data[tag] = NoTagData
                         THEN createTagData(st.ld, tag, 0, TRUE, TRUE, FALSE)
                         ELSE st.ld
                  td == ld1.tag_data[tag]
              IN IF version >= td.popped
                 THEN commitMessageTags(
                        [ ld |-> [ld1 EXCEPT !.tag_data[tag].versionMessages =
                                     Append(@, [version |-> version, sub |-> msg.sub])],
                          expectedBytes |-> st.expectedBytes + (IF tag # txsTag THEN MsgBytes ELSE 0),
                          txsBytes |-> st.txsBytes + (IF tag = txsTag THEN MsgBytes ELSE 0),
                          overheadBytes |-> st.overheadBytes + VERSION_MESSAGES_ENTRY_BYTES_WITH_OVERHEAD ],
                        version, msg, i + 1)
                 ELSE commitMessageTags([st EXCEPT !.ld = ld1], version, msg, i + 1)

\* commitMessages, the loop over the messages of one version. st carries the
\* LogData, the block being filled (blockSize, blockFree) and the byte counts.
RECURSIVE commitMessagesLoop(_, _, _, _)
commitMessagesLoop(st, version, msgs, i) ==
    IF i > Len(msgs) THEN st
    ELSE LET full == MsgBytes > st.blockFree
             newBlock(s) ==
                 IF full
                 THEN [s EXCEPT !.ld.messageBlocks =
                                    Append(@, [version |-> version, size |-> s.blockSize]),
                                !.addedBytes = @ + s.blockSize * TLOG_MESSAGE_BLOCK_OVERHEAD_FACTOR,
                                !.blockSize = 0,
                                !.blockFree = Max(TLOG_MESSAGE_BLOCK_BYTES, s.msgSize)]
                 ELSE s
             append(s) == [s EXCEPT !.blockSize = @ + MsgBytes, !.blockFree = @ - MsgBytes,
                                    !.msgSize = @ - MsgBytes]
             tags(s) == commitMessageTags([ld |-> s.ld, expectedBytes |-> s.expectedBytes,
                                           txsBytes |-> s.txsBytes, overheadBytes |-> s.overheadBytes],
                                          version, msgs[i], 1)
             merge(s, t) == [s EXCEPT !.ld = t.ld, !.expectedBytes = t.expectedBytes,
                                      !.txsBytes = t.txsBytes, !.overheadBytes = t.overheadBytes]
             step(s) == merge(s, tags(s))
         IN commitMessagesLoop(step(append(newBlock(st))), version, msgs, i + 1)

\* commitMessages: the LogData after the messages of one version are stored in
\* memory, and the bytes added to the input counters
commitMessages(ld, version, msgs) ==
    IF msgs = <<>> THEN [ld |-> ld, addedBytes |-> 0]
    ELSE LET msgSize == Len(msgs) * MsgBytes
             st0 == [ ld |-> ld, blockSize |-> 0,
                      blockFree |-> IF ld.messageBlocks = <<>>
                                    THEN Max(TLOG_MESSAGE_BLOCK_BYTES, msgSize)
                                    ELSE ld.blockFree,
                      msgSize |-> msgSize, addedBytes |-> 0,
                      expectedBytes |-> 0, txsBytes |-> 0, overheadBytes |-> 0 ]
             added(st) == st.addedBytes + st.blockSize * TLOG_MESSAGE_BLOCK_OVERHEAD_FACTOR
                          + st.overheadBytes
             finish(st) ==
                 [ ld |-> [st.ld EXCEPT
                             !.messageBlocks = Append(@, [version |-> version, size |-> st.blockSize]),
                             !.blockFree = st.blockFree,
                             !.version_sizes = { e \in @ : e.version # version } \cup
                                   { [version |-> version, bytes |-> st.expectedBytes, txs |-> st.txsBytes] },
                             !.bytesInput = @ + added(st)],
                   addedBytes |-> added(st) ]
         IN finish(commitMessagesLoop(st0, version, msgs, 1))

VARIABLES
    fq,         \* the framing specification: raw disk queue bytes and the reader
    id_data,    \* TLogData::id_data: the LogData of each generation, or NoGen
    tl,         \* the other fields of TLogData
    dq,         \* persistentQueue: the entries pushed, how many are durable, the pop point
    kv,         \* persistentData: the readable store, the commit in flight, the durable store
    commits,    \* the tLogCommit actors in flight
    qcs,        \* the doQueueCommit actors in flight
    pops,       \* the tLogPop actors suspended inside eraseMessagesBefore
    us,         \* the updateStorage actor: its position and locals
    sent,       \* the commit request the proxies built for each (generation, version)
    hist,       \* history: what was pushed and what was answered
    ft,         \* FlowTransport: the two processes' TransportData and the connections between them
    ks          \* KeyValueStoreMemory: the store, its log in the disk queue, what was asked

vars == << fq, id_data, tl, dq, kv, commits, qcs, pops, us, sent, hist, ft, ks >>
tlogVars == << id_data, tl, dq, kv, commits, qcs, pops, us, sent, hist >>

PayloadBytes == {0, 1}
RECURSIVE SeqsUpTo(_, _)
SeqsUpTo(S, n) == IF n = 0 THEN { <<>> }
                  ELSE LET shorter == SeqsUpTo(S, n - 1) IN
                       shorter \cup { Append(s, x) : s \in { t \in shorter : Len(t) = n - 1 }, x \in S }
Payloads == SeqsUpTo(PayloadBytes, MaxPayload)

FqInit == [ phase     |-> "push",     \* push, read, done
            bytes     |-> <<>>,       \* the bytes of the raw queue
            pushed    |-> <<>>,       \* the payloads pushed, in order
            ends      |-> <<>>,       \* the end offset of each pushed frame
            cut       |-> 0,          \* the truncation point
            pos       |-> 0,          \* the recovery cursor
            got       |-> <<>>,       \* the payloads readNext returned
            zeroFill  |-> 0,
            \* the queue in use after that recovery, and the next recovery
            pushed2   |-> <<>>,       \* the payloads pushed after recovery
            ends2     |-> <<>>,       \* the end offset of each of their frames
            cut2      |-> 0,          \* the second truncation point
            got2      |-> <<>>,       \* the payloads the second recovery returned
            zeroFill2 |-> 0 ]

\* TLogQueue::push of one record
FqPush(p) ==
    /\ fq.phase = "push"
    /\ Len(fq.pushed) < MaxRecs
    /\ fq' = [fq EXCEPT !.bytes = @ \o FramePush(p),
                        !.pushed = Append(@, p),
                        !.ends = Append(@, Len(fq.bytes) + Len(FramePush(p)))]
    /\ UNCHANGED << tlogVars, ft, ks >>

\* the process dies: a prefix of the bytes survives
FqCrash(n) ==
    /\ fq.phase = "push"
    /\ fq.pushed # <<>>
    /\ n \in 0..Len(fq.bytes)
    /\ fq' = [fq EXCEPT !.phase = "read", !.bytes = Prefix(@, n), !.cut = n]
    /\ UNCHANGED << tlogVars, ft, ks >>

\* one call of TLogQueue::readNext during recovery
FqReadNext ==
    /\ fq.phase = "read"
    /\ LET r == ReadNext(fq.bytes, fq.pos) IN
       IF r.kind = "entry"
       THEN fq' = [fq EXCEPT !.pos = r.pos, !.got = Append(@, r.payload)]
       ELSE fq' = [fq EXCEPT !.pos = r.pos, !.phase = "done", !.zeroFill = r.zeroFill,
                             !.bytes = @ \o Zeros(r.zeroFill)]
    /\ UNCHANGED << tlogVars, ft, ks >>

FqNext ==
    \/ \E p \in Payloads : FqPush(p)
    \/ \E n \in 0..(MaxRecs * (HeaderSize + MaxPayload + 1)) : FqCrash(n)
    \/ FqReadNext



\* the records that were entirely durable at the truncation point
RECURSIVE DurableRecs(_, _, _)
DurableRecs(pushed, ends, cut) ==
    IF pushed = <<>> \/ Head(ends) > cut THEN <<>>
    ELSE << Head(pushed) >> \o DurableRecs(Tail(pushed), Tail(ends), cut)

(***************************************************************************)
(* C9: framing round trip. After any truncation of the pushed bytes,       *)
(* repeated readNext returns exactly the records that were entirely        *)
(* durable at the truncation point, in push order and equal to what was    *)
(* pushed, and then ends with end_of_stream.                               *)
(***************************************************************************)
C9_FramingRoundTrip ==
    /\ fq.phase = "read" =>
          /\ Len(fq.got) <= Len(DurableRecs(fq.pushed, fq.ends, fq.cut))
          /\ fq.got = Prefix(DurableRecs(fq.pushed, fq.ends, fq.cut), Len(fq.got))
    /\ fq.phase = "done" => fq.got = DurableRecs(fq.pushed, fq.ends, fq.cut)

\* a torn tail inside the second record, after the first was read back whole
C9_Witness ==
    /\ fq.phase = "done"
    /\ Len(fq.pushed) = 2
    /\ Len(fq.got) = 1
    /\ fq.cut > fq.ends[1]
    /\ fq.cut < fq.ends[2]


(***************************************************************************)
(* The queue in use after a recovery: records are pushed behind the zero   *)
(* fill, the process dies again, and the queue is recovered again.         *)
(***************************************************************************)
\* records pushed after the first recovery
MaxRecsAfter == 1

\* TLogQueue::push of one record, allowed once readNext threw end_of_stream
FqPushAgain(p) ==
    /\ fq.phase = "done"
    /\ Len(fq.pushed2) < MaxRecsAfter
    /\ fq' = [fq EXCEPT !.bytes = @ \o FramePush(p),
                        !.pushed2 = Append(@, p),
                        !.ends2 = Append(@, Len(fq.bytes) + Len(FramePush(p)))]
    /\ UNCHANGED << tlogVars, ft, ks >>

\* the process dies again: the bytes that survived the first crash are
\* durable; a prefix of what was pushed since (zero fill, records) survives
FqCrashAgain(n) ==
    /\ fq.phase = "done"
    /\ n \in fq.cut..Len(fq.bytes)
    /\ fq' = [fq EXCEPT !.phase = "read2", !.bytes = Prefix(@, n), !.cut2 = n, !.pos = 0]
    /\ UNCHANGED << tlogVars, ft, ks >>

\* one call of TLogQueue::readNext during the second recovery
FqReadAgain ==
    /\ fq.phase = "read2"
    /\ LET r == ReadNext(fq.bytes, fq.pos) IN
       IF r.kind = "entry"
       THEN fq' = [fq EXCEPT !.pos = r.pos, !.got2 = Append(@, r.payload)]
       ELSE fq' = [fq EXCEPT !.pos = r.pos, !.phase = "done2", !.zeroFill2 = r.zeroFill,
                             !.bytes = @ \o Zeros(r.zeroFill)]
    /\ UNCHANGED << tlogVars, ft, ks >>

NextRefill ==
    \/ \E p \in Payloads : FqPush(p)
    \/ \E n \in 0..(MaxRecs * (HeaderSize + MaxPayload + 1)) : FqCrash(n)
    \/ FqReadNext
    \/ \E p \in Payloads : FqPushAgain(p)
    \/ \E n \in 0..((MaxRecs + MaxRecsAfter) * (HeaderSize + MaxPayload + 1)) : FqCrashAgain(n)
    \/ FqReadAgain

\* the bytes are a sequence of whole frames: length, payload, flag byte
RECURSIVE WholeFrames(_)
WholeFrames(bytes) ==
    \/ bytes = <<>>
    \/ /\ Len(bytes) >= HeaderSize
       /\ Len(bytes) >= HeaderSize + FromLE(SubSeq(bytes, 1, HeaderSize)) + 1
       /\ WholeFrames(SubSeq(bytes, HeaderSize + FromLE(SubSeq(bytes, 1, HeaderSize)) + 2,
                             Len(bytes)))

\* the end offset of the frame that a truncation at cut tore, or cut itself
\* when it fell between two frames
RECURSIVE TornFrameEnd(_, _)
TornFrameEnd(ends, cut) ==
    IF ends = <<>> THEN cut
    ELSE IF Head(ends) > cut THEN Head(ends)
    ELSE TornFrameEnd(Tail(ends), cut)
FrameStarts(ends) == { 0 } \cup { ends[i] : i \in 1..Len(ends) }

(***************************************************************************)
(* C29: when readNext ends inside a frame it pushes exactly the zero bytes *)
(* that complete the frame, before any record is pushed; from then on the  *)
(* queue is a sequence of whole frames, and a later recovery returns the   *)
(* old records that were durable and the new records that were durable,   *)
(* in order, and nothing else.                                             *)
(***************************************************************************)
C29_ZeroFillRestoresFraming ==
    /\ fq.phase \in {"done", "read2", "done2"} =>
          fq.cut + fq.zeroFill =
              IF fq.cut \in FrameStarts(fq.ends) THEN fq.cut
              ELSE TornFrameEnd(fq.ends, fq.cut)
    /\ fq.phase = "done" => WholeFrames(fq.bytes)
    /\ fq.phase = "done2" =>
          /\ WholeFrames(fq.bytes)
          /\ fq.got2 = DurableRecs(fq.pushed, fq.ends, fq.cut)
                       \o DurableRecs(fq.pushed2, fq.ends2, fq.cut2)

\* the first crash tore the second record, the recovery zero-filled it, a
\* record was pushed behind it, and the second recovery returned the old
\* record and the new one
C29_Witness ==
    /\ fq.phase = "done2"
    /\ Len(fq.pushed) = 2
    /\ fq.cut > fq.ends[1]
    /\ fq.cut < fq.ends[2]
    /\ fq.zeroFill > 0
    /\ Len(fq.pushed2) = 1
    /\ fq.got2 = << fq.pushed[1], fq.pushed2[1] >>

\* the cursor stands on a whole frame (length, payload, flag byte all there)
\* whose flag byte is not 1
InvalidRecordAt(bytes, pos) ==
    LET h == RawRead(bytes, pos, HeaderSize)
        e == RawRead(bytes, pos + HeaderSize, FromLE(h) + 1) IN
    /\ Len(h) = HeaderSize
    /\ Len(e) = FromLE(h) + 1
    /\ e[Len(e)] # ValidFlag
\* the records behind the zero-filled frame that survived the second crash
DurableAfter == DurableRecs(fq.pushed2, fq.ends2, fq.cut2)

(***************************************************************************)
(* C30 as stated: a call of readNext that finds a whole record whose flag  *)
(* byte is not 1 stops there: it returns no record and the stream ends.    *)
(***************************************************************************)
C30_StopsAtInvalidRecord ==
    [][ (fq.phase = "read2" /\ InvalidRecordAt(fq.bytes, fq.pos))
        => (fq'.phase = "done2" /\ fq'.got2 = fq.got2) ]_vars

(***************************************************************************)
(* C30, amended: a call of readNext that finds a whole record whose flag   *)
(* byte is zero skips it and reads on: it returns the next whole record    *)
(* behind it whose flag byte is set, and ends the stream only when there   *)
(* is none.                                                                *)
(***************************************************************************)
C30_SkipsInvalidRecord ==
    [][ (fq.phase = "read2" /\ InvalidRecordAt(fq.bytes, fq.pos))
        => IF DurableAfter = <<>>
           THEN fq'.phase = "done2" /\ fq'.got2 = fq.got2
           ELSE fq'.phase = "read2" /\ fq'.got2 = Append(fq.got2, Head(DurableAfter)) ]_vars

\* the second recovery went over a zero-filled frame and returned a record
\* that lies behind it
C30_Witness ==
    /\ fq.phase = "done2"
    /\ fq.zeroFill > 0
    /\ fq.cut2 >= fq.cut + fq.zeroFill
    /\ DurableAfter # <<>>
    /\ Len(fq.got2) = Len(DurableRecs(fq.pushed, fq.ends, fq.cut)) + Len(DurableAfter)


(***************************************************************************)
(* The transaction log: state after construction of TLogData.              *)
(***************************************************************************)
\* the commit requests, and the pop requests, in progress at a time
MaxInflight == 2
\* the crashes of the process in one behaviour
MaxCrashes == 1
\* SERVER_KNOBS->TLOG_HARD_LIMIT_BYTES, scaled like the other knobs
TLOG_HARD_LIMIT_BYTES == 12

NoReq == [absent |-> TRUE]
NoActor == << >>

\* persistentData: the keys of one generation
NoKeys == [absent |-> TRUE]
NewKeys(ld) == [ version |-> ld.version, knownCommitted |-> ld.knownCommittedVersion,
                 locality |-> ld.locality, logRouterTags |-> ld.logRouterTags,
                 popped |-> {}, msgs |-> {}, refs |-> {} ]
NoStore == [absent |-> TRUE]
EmptyStore == [ format |-> FALSE, recoveryLocation |-> invalidVersion,
                gens |-> [g \in GenIds |-> NoKeys] ]

\* the subscribers that peek with a sequence (peekId 0: a request without a sequence)
PeekIds == {1}
NoTracker == [absent |-> TRUE]
NoReply == [absent |-> TRUE]

UsIdle == [pc |-> "idle", gen |-> 0, nextVersion |-> 0, totalSize |-> 0, loopGen |-> 0]

\* TLogData::TLogData, with the position of restorePersistentState (off: not running)
NewTLogData ==
    [ popOrder |-> <<>>, spillOrder |-> <<>>,
      queueCommitBegin |-> 0, queueCommitEnd |-> 0,
      bytesInput |-> 0, bytesDurable |-> 0,
      diskQueueCommitBytes |-> 0, largeDiskQueueCommitBytes |-> FALSE,
      persistentDataCommitLock |-> NoActor,
      ignorePopRequest |-> FALSE, ignorePopDeadlinePassed |-> FALSE, toBePopped |-> {},
      popWaiters |-> {},
      cqGen |-> 0, cqMissing |-> {},
      peekTracker |-> [p \in PeekIds |-> NoTracker], peeks |-> {},
      restore |-> [pc |-> "off", pos |-> 0] ]

TLogInit ==
    /\ id_data = [g \in GenIds |-> NoGen]
    /\ tl = NewTLogData
    /\ dq = [entries |-> <<>>, durable |-> 0, popped |-> 0]
    /\ kv = [cur |-> EmptyStore, committing |-> NoStore, durable |-> EmptyStore]
    /\ commits = {}
    /\ qcs = {}
    /\ pops = {}
    /\ us = UsIdle
    /\ sent = [g \in GenIds |-> [v \in 1..(MaxVersion + 1) |-> NoReq]]
    /\ hist = [ pushed |-> [g \in GenIds |-> <<>>], replies |-> {},
                 popAsked |-> [g \in GenIds |-> [t \in Tags |-> 0]], crashes |-> 0,
                 locks |-> {}, recorded |-> {}, peek |-> NoReply, peekCount |-> 0,
                 deferred |-> {} ]

\* ---------------------------------------------------------------------------
\* FlowTransport (src/fdbrpc/FlowTransport.actor.cpp): two processes, the Peer
\* each keeps for the other, the connections between them, the EndpointMap.

Procs == {1, 2}
Other(p) == 3 - p

FLAG_PRIVATE == 1
FLAG_TLS == 2
\* NetworkAddress(): ip 0, port 0, private
\* an IPAddress: version 4 or version 6, and its number
IPAddress(v6, n) == [v6 |-> v6, n |-> n]
IpLess(a, b) == IF a.v6 # b.v6 THEN b.v6 ELSE a.n < b.n
NoAddress == [flags |-> FLAG_PRIVATE, ip |-> IPAddress(FALSE, 0), port |-> 0]
NetworkAddress(ip, port, public, tls) ==
    [flags |-> (IF public THEN 0 ELSE FLAG_PRIVATE) + (IF tls THEN FLAG_TLS ELSE 0),
     ip |-> ip, port |-> port]
\* NetworkAddress::operator<: the flags, then the ip, then the port
AddressLess(a, b) ==
    IF a.flags # b.flags THEN a.flags < b.flags
    ELSE IF a.ip # b.ip THEN IpLess(a.ip, b.ip)
    ELSE a.port < b.port
isPublic(a) == (a.flags % 2) = 0
\* the public addresses a process may bind
MaxIp == 2
MaxPort == 2
PublicAddresses ==
    { NetworkAddress(IPAddress(FALSE, n), port, TRUE, FALSE) : n \in 1..MaxIp, port \in 1..MaxPort }
    \cup { NetworkAddress(IPAddress(TRUE, 1), 1, TRUE, FALSE) }

\* A token is a UID (first, second); second is kept as its high and low 32 bits.
UID(first, hi, lo) == [first |-> first, hi |-> hi, lo |-> lo]
WLTOKEN_ENDPOINT_NOT_FOUND == UID(-1, 0, 0)
WLTOKEN_PING_PACKET == UID(-1, 0, 1)
TOKEN_STREAM_FLAG == 1
\* token.first() & TOKEN_STREAM_FLAG
IsStreamToken(token) == (token.first % 2) = TOKEN_STREAM_FLAG

TaskReadSocket == 9000
TaskDefaultEndpoint == 5000
TaskUnknownEndpoint == 4000

\* EndpointMap: data[] with a free list threaded through it; an index is 0-based
\* in the code, so slot i of the code is data[i + 1] here.
EndpointSlots == 4
NoReceiver == "none"
FreeEntry(next) == [first |-> 0, hi |-> 0, priority |-> 0, receiver |-> NoReceiver, nextFree |-> next]
\* EndpointMap() followed by the first realloc()
EmptyEndpointMap ==
    [data |-> [i \in 1..EndpointSlots |-> FreeEntry(IF i = EndpointSlots THEN -1 ELSE i)],
     firstFree |-> 0]
\* EndpointMap::insert: takes the head of the free list; the token's low 32 bits
\* become the index, the entry keeps the high bits and the priority
InsertedToken(map, token) == UID(token.first, token.hi, map.firstFree)
EndpointInsert(map, r, token, priority) ==
    LET index == map.firstFree IN
    [data |-> [map.data EXCEPT ![index + 1] =
                   [first |-> token.first, hi |-> token.hi, priority |-> priority,
                    receiver |-> r, nextFree |-> -1]],
     firstFree |-> map.data[index + 1].nextFree]
\* a lookup by the index alone
EndpointMatchesIndex(map, token) ==
    token.lo >= 0 /\ token.lo < Len(map.data)
\* the test get, getPriority and remove share
EndpointMatches(map, token) ==
    /\ token.lo >= 0 /\ token.lo < Len(map.data)
    /\ map.data[token.lo + 1].first = token.first
    /\ map.data[token.lo + 1].hi = token.hi
EndpointGet(map, token) ==
    IF EndpointMatches(map, token) THEN map.data[token.lo + 1].receiver ELSE NoReceiver
getPriority(map, token) ==
    IF EndpointMatches(map, token) THEN map.data[token.lo + 1].priority ELSE TaskUnknownEndpoint
EndpointRemove(map, token, r) ==
    IF EndpointMatches(map, token) /\ map.data[token.lo + 1].receiver = r
    THEN [data |-> [map.data EXCEPT ![token.lo + 1].receiver = NoReceiver,
                                    ![token.lo + 1].nextFree = map.firstFree],
          firstFree |-> token.lo]
    ELSE map
\* TransportData(): the EndpointNotFoundReceiver, then the PingReceiver
NewEndpoints ==
    EndpointInsert(EndpointInsert(EmptyEndpointMap, "endpointNotFound",
                                  WLTOKEN_ENDPOINT_NOT_FOUND, TaskDefaultEndpoint),
                   "ping", WLTOKEN_PING_PACKET, TaskReadSocket)

\* ProtocolVersion: a number; the versions of one release family are compatible,
\* and a feature is present from the version that introduced it on.
FamilySize == 4
MaxProtocolVersion == 11
ProtocolVersions == 0..MaxProtocolVersion
MultiVersionClientVersion == 2
IPv6Version == 5
currentProtocolVersion == 6
isCompatible(a, b) == (a \div FamilySize) = (b \div FamilySize)
hasMultiVersionClient(v) == v >= MultiVersionClientVersion
hasIPv6(v) == v >= IPv6Version
\* g_network->useObjectSerializer(), and the flag a ConnectPacket's version carries
useObjectSerializer == FALSE

\* ConnectPacket: what setCanonicalRemoteIp and serialize put on the wire. A
\* writer whose version has no IPv6 writes the short form, without flags and ip6.
FLAG_IPV6 == 1
ConnectPacket(version, address, connectionId) ==
    [ kind |-> "connect", protocolVersion |-> version, objectSerializer |-> useObjectSerializer,
      canonicalRemotePort |-> address.port, connectionId |-> connectionId,
      canonicalRemoteIp4 |-> IF address.ip.v6 THEN 0 ELSE address.ip.n,
      long |-> hasIPv6(version),
      flags |-> IF address.ip.v6 THEN FLAG_IPV6 ELSE 0,
      canonicalRemoteIp6 |-> IF address.ip.v6 THEN address.ip.n ELSE 0 ]
\* ConnectPacket::serialize when deserializing: flags = 0 unless the packet's
\* version has IPv6, and only then are flags and ip6 read
DeserializeConnectPacket(bytes) ==
    IF hasIPv6(bytes.protocolVersion)
    THEN bytes
    ELSE [bytes EXCEPT !.flags = 0, !.canonicalRemoteIp6 = 0]
\* ConnectPacket::canonicalRemoteIp
canonicalRemoteIp(pkt) ==
    IF (pkt.flags % 2) = FLAG_IPV6 THEN IPAddress(TRUE, pkt.canonicalRemoteIp6)
    ELSE IPAddress(FALSE, pkt.canonicalRemoteIp4)

\* a packet sendPacket queued: its number, the token it is for, what it carries
DataPacket(id, token, reliable, body) ==
    [kind |-> "data", id |-> id, token |-> token, reliable |-> reliable, body |-> body]

\* Peer(transport, destination): the constructor starts connectionKeeper, which
\* runs to its first wait: outgoingConnectionIdle = true, nothing to send
NoConn == 0
KeeperIdle == [pc |-> "idle", conn |-> NoConn]
NewPeer ==
    [ unsent |-> <<>>, reliable |-> <<>>, compatible |-> TRUE,
      outgoingConnectionIdle |-> TRUE, incompatibleProtocolVersionNewer |-> FALSE,
      connect |-> KeeperIdle ]

\* The state after FlowTransport(transportId) in both processes. peer[p] is the
\* Peer process p keeps for the other process; conns are the TCP connections.
FtInit ==
    [ address |-> [p \in Procs |-> NoAddress],
      version |-> [p \in Procs |-> currentProtocolVersion],
      peer |-> [p \in Procs |-> NewPeer],
      conns |-> <<>>,
      endpoints |-> [p \in Procs |-> NewEndpoints],
      receivers |-> [p \in Procs |-> {}],
      removed |-> [p \in Procs |-> {}],
      delivering |-> [p \in Procs |-> {}],
      received |-> [p \in Procs |-> {}],
      endpointNotFound |-> [p \in Procs |-> {}],
      strayPeers |-> [p \in Procs |-> {}],
      packets |-> 0,
      \* history: how often each keeper's catch block ran, when each packet was
      \* queued, which reliable packets were cancelled
      failures |-> [p \in Procs |-> 0],
      queued |-> {},
      cancelled |-> {} ]

\* ---------------------------------------------------------------------------
\* KeyValueStoreMemory (src/fdbserver/KeyValueStoreMemory.actor.cpp): an
\* in-memory index backed by an IDiskQueue log of operations
\* ---------------------------------------------------------------------------

\* enum OpType
OpSet == 0
OpClear == 1
OpClearToEnd == 2
OpSnapshotItem == 3
OpSnapshotEnd == 4
OpSnapshotAbort == 5
OpCommit == 6
OpRollback == 7

\* struct OpHeader { int op; int len1, len2; }
sizeofOpHeader == 12
OP_DISK_OVERHEAD == sizeofOpHeader + 1
\* struct OpRef { OpType op; StringRef p1, p2; }
sizeofOpRef == 28
\* an IndexedSet node holding a KeyValueMapPair, and the pair's arena
getElementBytes == 72
ArenaSize == 64

\* a 32-bit little-endian integer, as the bytes of the struct in memory
Int32(v) == << v % 256, (v \div 256) % 256, (v \div 65536) % 256, (v \div 16777216) % 256 >>
ReadInt32(b, at) == b[at] + 256 * b[at + 1] + 65536 * b[at + 2] + 16777216 * b[at + 3]
OpHeader(op, len1, len2) == Int32(op) \o Int32(len1) \o Int32(len2)
\* memset(&h, 0, sizeof(OpHeader)); memcpy(&h, data.begin(), data.size());
ReadOpHeader(bytes) ==
  LET b == bytes \o Zeros(sizeofOpHeader - Len(bytes))
  IN [op |-> ReadInt32(b, 1), len1 |-> ReadInt32(b, 5), len2 |-> ReadInt32(b, 9)]

\* keys are strings of bytes, ordered as StringRef orders them
EmptyKey == <<>>
keyAfter(key) == Append(key, 0)
RECURSIVE KeyLess(_, _)
KeyLess(a, b) ==
  IF b = <<>> THEN FALSE
  ELSE IF a = <<>> THEN TRUE
  ELSE IF a[1] # b[1] THEN a[1] < b[1]
  ELSE KeyLess(Tail(a), Tail(b))
KeyLessEq(a, b) == a = b \/ KeyLess(a, b)

\* IndexedSet< KeyValueMapPair, uint64_t > data: one pair per key
DataInsert(data, key, value) ==
  { d \in data : d.key # key } \cup { [key |-> key, value |-> value] }
\* data.erase( data.lower_bound(p1), data.lower_bound(p2) )
DataErase(data, p1, p2) ==
  { d \in data : ~ (KeyLessEq(p1, d.key) /\ KeyLess(d.key, p2)) }
\* data.erase( data.lower_bound(p1), data.end() )
DataEraseToEnd(data, p1) == { d \in data : KeyLess(d.key, p1) }
\* data.sumTo(data.end())
DataSize(data) == Cardinality(data) * (ArenaSize + getElementBytes)
\* data.lower_bound(key) / data.upper_bound(key); {} stands for data.end()
DataFrom(data, key, after) ==
  { d \in data : IF after THEN KeyLess(key, d.key) ELSE KeyLessEq(key, d.key) }
DataFirst(s) == CHOOSE d \in s : \A e \in s : KeyLessEq(d.key, e.key)

\* OpQueue
OpRef(op, p1, p2) == [op |-> op, p1 |-> p1, p2 |-> p2]
RECURSIVE OpQueueTotalSize(_)
OpQueueTotalSize(ops) ==
  IF ops = <<>> THEN 0
  ELSE Len(ops[1].p1) + Len(ops[1].p2) + sizeofOpHeader + sizeofOpRef
       + OpQueueTotalSize(Tail(ops))

\* IDiskQueue: push appends bytes and returns the location after them
log_op(log, op, v1, v2) == log \o OpHeader(op, Len(v1), Len(v2)) \o v1 \o v2 \o << 1 >>
\* readNext(n): up to n bytes at the read position
LogReadNext(log, pos, n) ==
  SubSeq(log, pos, IF pos + n - 1 <= Len(log) THEN pos + n - 1 ELSE Len(log))

\* commit_queue: the operations take effect on data in order
ApplyOp(data, o) ==
  IF o.op = OpSet THEN DataInsert(data, o.p1, o.p2)
  ELSE IF o.op = OpClear THEN DataErase(data, o.p1, o.p2)
  ELSE DataEraseToEnd(data, o.p1)
RECURSIVE ApplyOps(_, _)
ApplyOps(data, ops) ==
  IF ops = <<>> THEN data ELSE ApplyOps(ApplyOp(data, ops[1]), Tail(ops))
RECURSIVE LogOps(_, _)
LogOps(log, ops) ==
  IF ops = <<>> THEN log
  ELSE LogOps(log_op(log, ops[1].op, ops[1].p1, ops[1].p2), Tail(ops))
RECURSIVE OpsDiskBytes(_)
OpsDiskBytes(ops) ==
  IF ops = <<>> THEN 0
  ELSE Len(ops[1].p1) + Len(ops[1].p2) + OP_DISK_OVERHEAD + OpsDiskBytes(Tail(ops))

\* the store after its constructor, over a disk queue that holds `log` from
\* location `front` on; `past` carries the history of the calls made so far
NewStore(log, front, past) ==
  [ data |-> {},
    queue |-> <<>>,
    log |-> log,
    front |-> front,
    durable |-> front + Len(log),
    pending |-> <<>>,
    recovering |-> TRUE,
    committedWriteBytes |-> 0,
    overheadWriteBytes |-> 0,
    notifiedCommittedWriteBytes |-> 0,
    committedDataSize |-> 0,
    transactionSize |-> 0,
    transactionIsLarge |-> FALSE,
    resetSnapshot |-> FALSE,
    recoveredSnapshotKey |-> EmptyKey,
    previousSnapshotEnd |-> -1,
    currentSnapshotEnd |-> -1,
    \* the snapshot actor's own variables
    nextKey |-> EmptyKey,
    nextKeyAfter |-> FALSE,
    snapshotTotalWrittenBytes |-> 0,
    \* history
    ideal |-> past.ideal,
    points |-> past.points,
    calls |-> past.calls,
    commits |-> past.commits,
    crashes |-> past.crashes,
    lost |-> past.lost,
    zeroFilled |-> 0,
    snapshotItems |-> 0,
    skippedZeroFill |-> 0,
    rollbacks |-> 0,
    asserted |-> FALSE ]

\* log->getNextReadLocation() / the location a push returns
Location(front, log) == front + Len(log)
\* IDiskQueue::getCommitOverhead
getCommitOverhead == 0

semiCommit(k) ==
  LET size == k.transactionSize + OpQueueTotalSize(k.queue)
  IN [k EXCEPT !.transactionSize = size,
               !.transactionIsLarge = @ \/ 2 * size > k.committedDataSize,
               !.data = ApplyOps(@, k.queue),
               !.log = LogOps(@, k.queue),
               !.committedWriteBytes = @ + OpsDiskBytes(k.queue),
               !.queue = <<>>]

\* set and clear: applied directly in a large transaction, else queued and,
\* once recovery is over, applied and logged at once
Mutate(k, o) ==
  IF k.transactionIsLarge THEN [k EXCEPT !.data = ApplyOp(@, o)]
  ELSE LET queued == [k EXCEPT !.queue = Append(@, o)]
       IN IF ~ k.recovering THEN semiCommit(queued) ELSE queued
set(k, key, value) == Mutate(k, OpRef(OpSet, key, value))
clear(k, begin, end) == Mutate(k, OpRef(OpClear, begin, end))

\* the snapshot actor: runs while notifiedCommittedWriteBytes is ahead of what
\* it has written, one item of data (or the end of the pass) per round
RECURSIVE snapshot(_)
snapshot(k) ==
  IF k.notifiedCommittedWriteBytes < k.snapshotTotalWrittenBytes + 1 THEN k
  ELSE
    LET s == IF k.resetSnapshot
             THEN [k EXCEPT !.nextKey = EmptyKey, !.nextKeyAfter = FALSE,
                            !.resetSnapshot = FALSE]
             ELSE k
        rest == DataFrom(s.data, s.nextKey, s.nextKeyAfter)
    IN IF rest = {}
       THEN LET logged == log_op(s.log, OpSnapshotEnd, <<>>, <<>>)
            IN snapshot([s EXCEPT
                 !.log = logged,
                 !.previousSnapshotEnd = s.currentSnapshotEnd,
                 !.currentSnapshotEnd = Location(s.front, logged),
                 !.nextKey = EmptyKey,
                 !.nextKeyAfter = FALSE,
                 !.snapshotTotalWrittenBytes = @ + OP_DISK_OVERHEAD])
       ELSE LET next == DataFirst(rest)
            IN snapshot([s EXCEPT
                 !.log = log_op(@, OpSnapshotItem, next.key, next.value),
                 !.nextKey = next.key,
                 !.nextKeyAfter = TRUE,
                 !.snapshotTotalWrittenBytes =
                     @ + Len(next.key) + Len(next.value) + OP_DISK_OVERHEAD])

RECURSIVE LogSnapshotItems(_, _)
LogSnapshotItems(log, data) ==
  IF data = {} THEN log
  ELSE LET d == DataFirst(data)
       IN LogSnapshotItems(log_op(log, OpSnapshotItem, d.key, d.value), data \ {d})

fullSnapshot(k) ==
  LET aborted == log_op(k.log, OpSnapshotAbort, <<>>, <<>>)
      cleared == log_op(aborted, OpClearToEnd, EmptyKey, <<>>)
      ended == log_op(LogSnapshotItems(cleared, k.data), OpSnapshotEnd, <<>>, <<>>)
  IN [k EXCEPT !.log = ended,
               !.previousSnapshotEnd = Location(k.front, aborted),
               !.currentSnapshotEnd = Location(k.front, ended)]

commit(k) ==
  LET logged ==
        IF k.transactionIsLarge
        THEN LET f == fullSnapshot(k)
             IN [f EXCEPT !.resetSnapshot = TRUE,
                          !.committedWriteBytes = f.notifiedCommittedWriteBytes,
                          !.overheadWriteBytes = 0,
                          !.log = log_op(@, OpCommit, <<>>, <<>>)]
        ELSE LET bytesWritten == OpsDiskBytes(k.queue)
                 q == [k EXCEPT !.data = ApplyOps(@, k.queue),
                                !.log = LogOps(@, k.queue),
                                !.queue = <<>>]
             IN IF bytesWritten > 0
                   \/ k.committedWriteBytes > k.notifiedCommittedWriteBytes
                THEN LET bytes == k.committedWriteBytes + bytesWritten
                                  + k.overheadWriteBytes + OP_DISK_OVERHEAD
                         s == snapshot([q EXCEPT !.committedWriteBytes = bytes,
                                                 !.notifiedCommittedWriteBytes = bytes])
                     IN [s EXCEPT !.log = log_op(@, OpCommit, <<>>, <<>>),
                                  !.overheadWriteBytes = getCommitOverhead]
                ELSE q
  IN [logged EXCEPT
        !.pending = Append(@, [end |-> Location(logged.front, logged.log),
                               pop |-> logged.previousSnapshotEnd]),
        !.committedDataSize = DataSize(logged.data),
        !.transactionSize = 0,
        !.transactionIsLarge = FALSE]

\* OpQueue::rollback
rollbackNothing(queue) == queue
rollback(queue) == <<>>

\* one operation read back from the log during recovery
recoverOp(r, h, data) ==
  LET p1 == SubSeq(data, 1, h.len1)
      p2 == SubSeq(data, h.len1 + 1, h.len1 + h.len2)
      here == r.front + r.pos - 1
  IN IF data[Len(data)] = 0 THEN [r EXCEPT !.skipped = @ + 1]
     ELSE IF h.op = OpSnapshotItem
     THEN [r EXCEPT
            !.recoveryQueue =
                Append(IF KeyLessEq(r.uncommittedNextKey, p1)
                       THEN Append(@, OpRef(OpClear, r.uncommittedNextKey, p1))
                       ELSE @,
                       OpRef(OpSet, p1, p2)),
            !.uncommittedNextKey = keyAfter(p1),
            !.items = @ + 1]
     ELSE IF h.op = OpSnapshotEnd
     THEN [r EXCEPT
            !.uncommittedPrevSnapshotEnd = r.uncommittedSnapshotEnd,
            !.uncommittedSnapshotEnd = here,
            !.recoveryQueue = Append(@, OpRef(OpClearToEnd, r.uncommittedNextKey, <<>>)),
            !.uncommittedNextKey = EmptyKey]
     ELSE IF h.op = OpSnapshotAbort
     THEN [r EXCEPT !.uncommittedNextKey = EmptyKey]
     ELSE IF h.op = OpSet
     THEN [r EXCEPT !.recoveryQueue = Append(@, OpRef(OpSet, p1, p2))]
     ELSE IF h.op = OpClear
     THEN [r EXCEPT !.recoveryQueue = Append(@, OpRef(OpClear, p1, p2))]
     ELSE IF h.op = OpClearToEnd
     THEN [r EXCEPT !.recoveryQueue = Append(@, OpRef(OpClearToEnd, p1, <<>>))]
     ELSE IF h.op = OpCommit
     THEN [r EXCEPT !.data = ApplyOps(@, r.recoveryQueue),
                    !.recoveryQueue = <<>>,
                    !.recoveredSnapshotKey = r.uncommittedNextKey,
                    !.previousSnapshotEnd = r.uncommittedPrevSnapshotEnd,
                    !.currentSnapshotEnd = r.uncommittedSnapshotEnd]
     ELSE IF h.op = OpRollback
     THEN [r EXCEPT !.recoveryQueue = rollback(@),
                    !.rollbacks = @ + 1,
                    !.uncommittedNextKey = r.recoveredSnapshotKey,
                    !.uncommittedPrevSnapshotEnd = r.previousSnapshotEnd,
                    !.uncommittedSnapshotEnd = r.currentSnapshotEnd]
     ELSE [r EXCEPT !.asserted = TRUE]

\* the read loop of recover: header, then len1 + len2 + 1 bytes, until the log
\* ends; a torn operation leaves the number of bytes it lacks in zeroFillSize
RECURSIVE recoverLoop(_)
recoverLoop(r) ==
  LET head == LogReadNext(r.log, r.pos, sizeofOpHeader)
      h == ReadOpHeader(head)
      size == h.len1 + h.len2 + 1
      data == LogReadNext(r.log, r.pos + sizeofOpHeader, size)
  IN IF Len(head) # sizeofOpHeader
     THEN IF Len(head) > 0
          THEN [r EXCEPT !.zeroFillSize = sizeofOpHeader - Len(head) + size]
          ELSE r
     ELSE IF Len(data) # size
     THEN [r EXCEPT !.zeroFillSize = size - Len(data)]
     ELSE recoverLoop(recoverOp([r EXCEPT !.pos = @ + sizeofOpHeader + size], h, data))

recover(k) ==
  LET r == recoverLoop([ log |-> k.log, front |-> k.front, pos |-> 1,
                         data |-> k.data,
                         recoveryQueue |-> <<>>,
                         uncommittedNextKey |-> k.recoveredSnapshotKey,
                         uncommittedPrevSnapshotEnd |-> k.front,
                         uncommittedSnapshotEnd |-> k.front,
                         recoveredSnapshotKey |-> k.recoveredSnapshotKey,
                         previousSnapshotEnd |-> k.front,
                         currentSnapshotEnd |-> k.front,
                         zeroFillSize |-> 0,
                         items |-> 0,
                         skipped |-> 0,
                         rollbacks |-> 0,
                         asserted |-> FALSE ])
      recovered ==
        [k EXCEPT !.data = r.data,
                  !.log = log_op(k.log \o Zeros(r.zeroFillSize), OpRollback, <<>>, <<>>),
                  !.recoveredSnapshotKey = r.recoveredSnapshotKey,
                  !.previousSnapshotEnd = r.previousSnapshotEnd,
                  !.currentSnapshotEnd = r.currentSnapshotEnd,
                  !.committedDataSize = DataSize(r.data),
                  !.nextKey = r.recoveredSnapshotKey,
                  !.zeroFilled = r.zeroFillSize,
                  !.snapshotItems = r.items,
                  !.skippedZeroFill = r.skipped,
                  !.rollbacks = r.rollbacks,
                  !.asserted = r.asserted]
  IN [semiCommit(recovered) EXCEPT !.recovering = FALSE]

\* log->commit() is done: everything pushed before it is durable, and
\* commitAndUpdateVersions pops the log up to the older snapshot's end
\* a variant of commitAndUpdateVersions that pops the log up to the end of the most
\* recently completed snapshot
commitAndPopCurrentSnapshot(k) ==
  LET c == Head(k.pending)
      front == Max(k.front, Min(k.currentSnapshotEnd, c.end))
  IN [k EXCEPT !.pending = Tail(@),
               !.durable = c.end,
               !.front = front,
               !.log = SubSeq(@, front - k.front + 1, Len(@))]

commitAndUpdateVersions(k) ==
  LET c == Head(k.pending)
      front == Max(k.front, c.pop)
  IN [k EXCEPT !.pending = Tail(@),
               !.durable = c.end,
               !.front = front,
               !.log = SubSeq(@, front - k.front + 1, Len(@))]

\* the store is opened over the log of an earlier run that recovered an empty
\* log, set three keys, committed, and saw the commit done
NoPast ==
  [ ideal |-> {}, points |-> << [end |-> 0, data |-> {}] >>,
    calls |-> 0, commits |-> 0, crashes |-> 0, lost |-> FALSE ]
EarlierValue == << 7 >>
EarlierRun ==
  LET opened == recover(NewStore(<<>>, 0, NoPast))
      one == set(opened, << 1 >>, EarlierValue)
      two == set(one, << 2 >>, EarlierValue)
      three == set(two, << 3 >>, EarlierValue)
  IN commitAndUpdateVersions(commit(three))
KsInit ==
  NewStore(EarlierRun.log, EarlierRun.front,
           [ NoPast EXCEPT !.ideal = EarlierRun.data,
                           !.points = << [end |-> 0, data |-> EarlierRun.data] >> ])

Init == fq = FqInit /\ TLogInit /\ ft = FtInit /\ ks = KsInit

SpecFraming == Init /\ [][FqNext]_vars

SpecRefill == Init /\ [][NextRefill]_vars

Gone == [absent |-> TRUE, gone |-> TRUE]
Live(g) == "absent" \notin DOMAIN id_data[g]
\* the generations TLogData::id_data holds
InIdData(g) == Live(g) /\ ~id_data[g].removed

\* FlowLock: take() succeeds at once when the lock is free, else queues the taker
LockFree(ld) == ld.execOpLock.holder = NoActor
LockTake(ld, id) ==
    IF LockFree(ld) THEN [ld EXCEPT !.execOpLock.holder = id]
    ELSE [ld EXCEPT !.execOpLock.waiters = Append(@, id)]
\* FlowLock: release() hands the lock to the longest waiting taker
LockRelease(ld) ==
    IF ld.execOpLock.waiters = <<>> THEN [ld EXCEPT !.execOpLock.holder = NoActor]
    ELSE [ld EXCEPT !.execOpLock.holder = Head(ld.execOpLock.waiters),
                    !.execOpLock.waiters = Tail(@)]

ActorId(a) == << a.gen, a.version, a.k >>
\* a reply sent for a commit request: the error tlog_stopped, or the version replied
Reply(a, stopped, result) ==
    [gen |-> a.gen, version |-> a.version, k |-> a.k, replay |-> a.replay,
     pushed |-> a.pushed, tlog_stopped |-> stopped, result |-> IF stopped THEN 0 ELSE result]

\* TLogQueue::push of the entry of one commit, with the location bookkeeping
QueuePush(ld, qe) ==
    [ld EXCEPT !.versionLocation = { e \in @ : e.version # qe.version } \cup
                  { [version |-> qe.version, begin |-> Len(dq.entries), end |-> Len(dq.entries) + 1] }]

\* tLogCommit from commitMessages to the wait for the queue commit, from the TLogData
\* fields tl0
CommitStoreFrom(a, lockTaken, ld0, req, tl0) ==
    LET store(cm) ==
          LET kcv == Max(cm.ld.knownCommittedVersion, req.knownCommittedVersion)
              qe == [id |-> a.gen, version |-> a.version, knownCommittedVersion |-> kcv,
                     messages |-> req.messages]
              ld1 == [QueuePush(cm.ld, qe) EXCEPT !.knownCommittedVersion = kcv,
                                                  !.version = a.version]
          IN /\ id_data' = [id_data EXCEPT ![a.gen] = ld1]
             /\ dq' = [dq EXCEPT !.entries = Append(@, qe)]
             /\ tl' = [tl0 EXCEPT !.bytesInput = @ + cm.addedBytes,
                                 !.diskQueueCommitBytes = @ + 1 + Len(req.messages),
                                 !.largeDiskQueueCommitBytes =
                                     @ \/ (tl0.diskQueueCommitBytes + 1 + Len(req.messages) > MAX_QUEUE_COMMIT_BYTES)]
             /\ hist' = [hist EXCEPT !.pushed[a.gen] = Append(@, a.version)]
             /\ commits' = (commits \ {a}) \cup
                    { [a EXCEPT !.pc = "waitQueue", !.pushed = TRUE, !.stopSeen = ld1.stopCommit,
                                !.execOpLockTaken = lockTaken] }
    IN store(commitMessages(ld0, a.version, req.messages))

\* tLogCommit from commitMessages to the wait for the queue commit
CommitStore(a, lockTaken, ld0, req) == CommitStoreFrom(a, lockTaken, ld0, req, tl)

\* a variant of NotDuplicate that takes every request for a new one
NotDuplicateUnchecked(ld, req) == TRUE

\* tLogCommit's test that the request is not a duplicate
NotDuplicate(ld, req) == ld.version = req.prevVersion

\* tLogCommit from the stopped check to the wait for the queue commit
CommitCritical(a, ld, lockTaken, req) ==
    LET a1 == [a EXCEPT !.execOpLockTaken = lockTaken] IN
    IF ld.stopped
    THEN /\ hist' = [hist EXCEPT !.replies = @ \cup { Reply(a, TRUE, 0) }]
         /\ commits' = commits \ {a}
         /\ id_data' = [id_data EXCEPT ![a.gen] = ld]
         /\ UNCHANGED << dq, tl >>
    ELSE IF ~NotDuplicate(ld, req)
    THEN /\ commits' = (commits \ {a}) \cup
                { [a1 EXCEPT !.pc = "waitQueue", !.stopSeen = ld.stopCommit] }
         /\ id_data' = [id_data EXCEPT ![a.gen] = ld]
         /\ UNCHANGED << dq, tl, hist >>
    ELSE IF req.hasExecOp /\ ~lockTaken
    THEN LET ld1 == LockTake([ld EXCEPT !.execOpCommitInProgress = TRUE], ActorId(a)) IN
         \* FlowLock::take yields even when the lock is free
         /\ commits' = (commits \ {a}) \cup { [a1 EXCEPT !.pc = "waitLock1937"] }
         /\ id_data' = [id_data EXCEPT ![a.gen] = ld1]
         /\ UNCHANGED << dq, tl, hist >>
    ELSE CommitStore(a, lockTaken,
                     IF req.hasExecOp THEN [ld EXCEPT !.execOpCommitInProgress = TRUE] ELSE ld, req)

\* tLogCommit from its backpressure loop on, once prevVersion is reached
CommitRun(a, ld, req) ==
    IF ld.execOpCommitInProgress
    THEN /\ id_data' = [id_data EXCEPT ![a.gen] = LockTake(ld, ActorId(a))]
         /\ commits' = (commits \ {a}) \cup { [a EXCEPT !.pc = "waitLock1906"] }
         /\ UNCHANGED << dq, tl, hist >>
    ELSE CommitCritical(a, ld, FALSE, req)

\* a variant of Backpressure that goes on holding commits back in a stopped generation
BackpressureWhileStopped(ld) == tl.bytesInput - tl.bytesDurable >= TLOG_HARD_LIMIT_BYTES

\* tLogCommit, the condition of its backpressure loop
Backpressure(ld) == tl.bytesInput - tl.bytesDurable >= TLOG_HARD_LIMIT_BYTES /\ ~ld.stopped

\* serveTLogInterface receives a TLogCommitRequest; tLogCommit runs to its first
\* wait that is not ready (yields: check_yield lets other actors run first)
CommitArrive(g, v, k, req, yields) ==
    /\ Live(g) /\ id_data[g].serving
    /\ req.prevVersion >= id_data[g].firstPrev /\ req.prevVersion < v
    /\ \A a \in commits : ActorId(a) # << g, v, k >>
    /\ \A r \in hist.replies : << r.gen, r.version, r.k >> # << g, v, k >>
    /\ IF k = 1 THEN sent[g][v] = NoReq ELSE sent[g][v] # NoReq
    /\ Cardinality(commits) < MaxInflight
    /\ IF sent[g][v] = NoReq
       THEN /\ req.knownCommittedVersion <= req.prevVersion
            /\ sent' = [sent EXCEPT ![g][v] = req]
       ELSE /\ req = sent[g][v]
            /\ UNCHANGED sent
    /\ LET ld == [id_data[g] EXCEPT !.minKnownCommittedVersion =
                                        Max(@, req.minKnownCommittedVersion)]
           a == [ gen |-> g, version |-> v, k |-> k, pc |-> "waitVersion",
                  replay |-> ld.version >= v, pushed |-> FALSE,
                  execOpLockTaken |-> FALSE, stopSeen |-> 0 ]
       IN IF ld.stopped
          THEN /\ hist' = [hist EXCEPT !.replies = @ \cup { Reply(a, TRUE, 0) }]
               /\ UNCHANGED << id_data, commits, dq, tl >>
          ELSE IF ld.version < req.prevVersion \/ Backpressure(ld) \/ yields
          THEN /\ id_data' = [id_data EXCEPT ![g] = ld]
               /\ commits' = commits \cup {a}
               /\ UNCHANGED << hist, dq, tl >>
          ELSE CommitRun(a, ld, req)
    /\ UNCHANGED << ft, ks, fq, kv, qcs, pops, us >>

\* tLogCommit resumes after the wait for prevVersion, the yield or the backpressure delay
CommitProceed(a) ==
    /\ a.pc = "waitVersion"
    /\ id_data[a.gen].version >= sent[a.gen][a.version].prevVersion
    /\ ~Backpressure(id_data[a.gen])
    /\ CommitRun(a, id_data[a.gen], sent[a.gen][a.version])
    /\ UNCHANGED << ft, ks, fq, kv, qcs, pops, us, sent >>

\* the execOpLock.take() before the stopped check returns
CommitLock1906(a) ==
    /\ a.pc = "waitLock1906"
    /\ id_data[a.gen].execOpLock.holder = ActorId(a)
    /\ CommitCritical(a, id_data[a.gen], TRUE, sent[a.gen][a.version])
    /\ UNCHANGED << ft, ks, fq, kv, qcs, pops, us, sent >>

\* the execOpLock.take() of an exec commit inside the critical section returns
CommitLock1937(a) ==
    /\ a.pc = "waitLock1937"
    /\ id_data[a.gen].execOpLock.holder = ActorId(a)
    /\ CommitStore(a, TRUE, id_data[a.gen], sent[a.gen][a.version])
    /\ UNCHANGED << ft, ks, fq, kv, qcs, pops, us, sent >>

\* tLogCommit after the wait for the queue commit or the stop: the reply
CommitReply(a) ==
    /\ a.pc = "waitQueue"
    /\ LET ld == id_data[a.gen]
           req == sent[a.gen][a.version]
           stoppedReady == ld.stopCommit > a.stopSeen
           execVersion == IF a.pushed /\ req.hasExecOp THEN a.version ELSE invalidVersion
           ld1 == IF execVersion # invalidVersion /\ ld.execOpCommitInProgress
                  THEN [ld EXCEPT !.execOpCommitInProgress = FALSE] ELSE ld
           ld2 == IF a.execOpLockTaken THEN LockRelease(ld1) ELSE ld1
       IN /\ ld.queueCommittedVersion >= a.version \/ stoppedReady
          /\ id_data' = [id_data EXCEPT ![a.gen] = ld2]
          /\ hist' = [hist EXCEPT !.replies = @ \cup
                 { Reply(a, stoppedReady, ld.durableKnownCommittedVersion) }]
          /\ commits' = commits \ {a}
    /\ UNCHANGED << ft, ks, fq, tl, dq, kv, qcs, pops, us, sent >>

\* updatePersistentPopped: the TagData and the keys after the popped version is persisted
updatePersistentPopped(ld, keys, tag) ==
    LET td == ld.tag_data[tag] IN
    IF ~td.poppedRecently THEN [ld |-> ld, keys |-> keys]
    ELSE LET keys1 == [keys EXCEPT !.popped = { e \in @ : e.tag # tag } \cup
                                                 { [tag |-> tag, popped |-> td.popped] }]
             keys2 == IF td.nothingPersistent THEN keys1
                      ELSE IF tag = txsTag
                      THEN [keys1 EXCEPT !.msgs = { e \in @ : ~(e.tag = tag /\ e.version < td.popped) }]
                      ELSE [keys1 EXCEPT !.refs = { e \in @ : ~(e.tag = tag /\ e.version < td.popped) }]
             np == td.nothingPersistent \/ td.popped > ld.persistentDataVersion
         IN [ ld |-> [ld EXCEPT !.tag_data[tag].poppedRecently = FALSE,
                                !.tag_data[tag].nothingPersistent = np],
              keys |-> keys2 ]

\* the order of LogData::tag_data (Tag::toTagDataIndex, then id)
TagOrder == << T0, T1, txsTag, LR0, LR1 >>

\* initPersistentState, the loop over allTags
RECURSIVE initTags(_, _)
initTags(st, i) ==
    IF i > Len(TagOrder) THEN st
    ELSE IF TagOrder[i] \notin st.ld.allTags THEN initTags(st, i + 1)
    ELSE initTags(updatePersistentPopped(
                      createTagData(st.ld, TagOrder[i], 0, TRUE, TRUE, TRUE), st.keys, TagOrder[i]),
                  i + 1)

\* a variant of stopOne that leaves the generation as it is
stopNone(ld) == ld

\* tLogStart, the loop over id_data: one existing generation is stopped
stopOne(ld) ==
    [ld EXCEPT !.committingQueue = IF ~ld.stopped /\ @ = "unset" THEN "error" ELSE @,
               !.stopped = TRUE,
               !.recoveryComplete = IF @ = "unset" THEN "error" ELSE @,
               !.stopCommit = @ + 1]

\* tLogStart up to the wait for initPersistentState
TLogStart(g, req) ==
    /\ ~Live(g) /\ id_data[g] = NoGen
    /\ \A h \in GenIds : h < g => id_data[h] # NoGen
    /\ LET ld0 == [NewLogData(g, req.logRouterTags, req.allTags) EXCEPT
                      !.locality = req.locality, !.startPc = "initLock", !.req = req]
           ld1 == IF req.recover
                  THEN [ld0 EXCEPT !.unrecoveredBefore = req.startVersion,
                                   !.recoveredAt = req.recoverAt,
                                   !.firstPrev = req.recoverAt,
                                   !.knownCommittedVersion = req.startVersion - 1,
                                   !.persistentDataVersion = req.startVersion - 1,
                                   !.persistentDataDurableVersion = req.startVersion - 1,
                                   !.queueCommittedVersion = req.startVersion - 1,
                                   !.version = req.startVersion - 1,
                                   !.unpoppedRecoveredTags = Cardinality(req.allTags)]
                  ELSE ld0
       IN /\ id_data' = [h \in GenIds |-> IF h = g THEN ld1
                                          ELSE IF InIdData(h) THEN stopOne(id_data[h])
                                          ELSE id_data[h]]
          /\ tl' = [tl EXCEPT !.popOrder = Append(@, g), !.spillOrder = Append(@, g)]
    /\ UNCHANGED << ft, ks, fq, dq, kv, commits, qcs, pops, us, sent, hist >>

\* a variant of initPersistentState that does not wait for persistentDataCommitLock
InitPersistentStateUnlocked(g) ==
    /\ Live(g) /\ id_data[g].startPc = "initLock"
    /\ LET st == initTags([ld |-> id_data[g], keys |-> NewKeys(id_data[g])], 1)
           cur == [kv.cur EXCEPT !.format = TRUE, !.gens[g] = st.keys]
       IN /\ id_data' = [id_data EXCEPT ![g] = [st.ld EXCEPT !.startPc = "initCommit"]]
          /\ kv' = [kv EXCEPT !.cur = cur, !.committing = cur]
          /\ tl' = [tl EXCEPT !.persistentDataCommitLock = << "init", g >>]
    /\ UNCHANGED << ft, ks, fq, dq, commits, qcs, pops, us, sent, hist >>

\* initPersistentState once it holds persistentDataCommitLock, up to its commit()
InitPersistentState(g) ==
    /\ Live(g) /\ id_data[g].startPc = "initLock"
    /\ tl.persistentDataCommitLock = NoActor
    /\ kv.committing = NoStore
    /\ LET st == initTags([ld |-> id_data[g], keys |-> NewKeys(id_data[g])], 1)
           cur == [kv.cur EXCEPT !.format = TRUE, !.gens[g] = st.keys]
       IN /\ id_data' = [id_data EXCEPT ![g] = [st.ld EXCEPT !.startPc = "initCommit"]]
          /\ kv' = [kv EXCEPT !.cur = cur, !.committing = cur]
          /\ tl' = [tl EXCEPT !.persistentDataCommitLock = << "init", g >>]
    /\ UNCHANGED << ft, ks, fq, dq, commits, qcs, pops, us, sent, hist >>

\* IKeyValueStore::commit completes: what was set before the call is durable
KVCommitDone ==
    /\ kv.committing # NoStore
    /\ kv' = [kv EXCEPT !.durable = kv.committing, !.committing = NoStore]
    /\ UNCHANGED << ft, ks, fq, id_data, tl, dq, commits, qcs, pops, us, sent, hist >>

\* the entry tLogStart and pullAsyncData push for a version
PushEntry(ld, ver, msgs) ==
    [id |-> ld.logId, version |-> ver, knownCommittedVersion |-> ld.knownCommittedVersion,
     messages |-> msgs]

\* tLogStart after the recovered versions were pulled, up to the wait for committingQueue
AfterPull(g, ld0, pulled) ==
    LET req == ld0.req
        ld1 == IF pulled THEN [ld0 EXCEPT !.knownCommittedVersion = req.recoverAt] ELSE ld0
        push == ld1.version < req.recoverAt /\ ~ld1.stopped
        qe == PushEntry(ld1, req.recoverAt, <<>>)
        ld2 == IF push THEN [QueuePush(ld1, qe) EXCEPT !.version = req.recoverAt] ELSE ld1
        ld3 == [ld2 EXCEPT !.startPc = IF ld2.recoveryComplete # "unset" THEN "dying" ELSE "waitCQ"]
    IN /\ id_data' = [id_data EXCEPT ![g] = ld3]
       /\ dq' = IF push THEN [dq EXCEPT !.entries = Append(@, qe)] ELSE dq
       /\ tl' = [tl EXCEPT
             !.persistentDataCommitLock = IF @ = << "init", g >> THEN NoActor ELSE @,
             !.diskQueueCommitBytes = IF push THEN @ + 1 ELSE @,
             !.largeDiskQueueCommitBytes = @ \/ (push /\ tl.diskQueueCommitBytes + 1 > MAX_QUEUE_COMMIT_BYTES)]

\* tLogStart after initPersistentState returned
TLogStartInitialized(g) ==
    /\ Live(g) /\ id_data[g].startPc = "initCommit"
    /\ kv.committing = NoStore
    /\ LET ld == id_data[g]
           unlock == [tl EXCEPT !.persistentDataCommitLock = NoActor] IN
       IF ld.recoveryComplete # "unset"
       THEN /\ id_data' = [id_data EXCEPT ![g].startPc = "dying"]
            /\ tl' = unlock
            /\ UNCHANGED dq
       ELSE IF ~ld.req.recover
       THEN /\ id_data' = [id_data EXCEPT ![g].initialized = TRUE,
                                          ![g].recoveryComplete = "set",
                                          ![g].startPc = "waitCQ"]
            /\ tl' = unlock
            /\ UNCHANGED dq
       ELSE IF ~ld.stopped /\ ld.unrecoveredBefore <= ld.req.recoverAt
       THEN IF ld.req.recoverTags
            THEN /\ id_data' = [id_data EXCEPT ![g].initialized = TRUE, ![g].startPc = "pulling"]
                 /\ tl' = unlock
                 /\ UNCHANGED dq
            ELSE AfterPull(g, [ld EXCEPT !.initialized = TRUE], TRUE)
       ELSE AfterPull(g, [ld EXCEPT !.initialized = TRUE], FALSE)
    /\ UNCHANGED << ft, ks, fq, kv, commits, qcs, pops, us, sent, hist >>

\* pullAsyncData: one version of the recovery cursor is committed and pushed
PullVersion(g, ver, msgs) ==
    /\ Live(g) /\ id_data[g].startPc = "pulling"
    /\ LET ld == id_data[g] IN
       /\ ~ld.stopped
       /\ ver > ld.version /\ ver <= ld.req.recoverAt
       /\ ~(tl.bytesInput - tl.bytesDurable >= TLOG_HARD_LIMIT_BYTES)
       /\ LET cm == commitMessages(ld, ver, msgs)
              qe == PushEntry(cm.ld, ver, msgs)
          IN /\ id_data' = [id_data EXCEPT ![g] = [QueuePush(cm.ld, qe) EXCEPT !.version = ver]]
             /\ dq' = [dq EXCEPT !.entries = Append(@, qe)]
             /\ tl' = [tl EXCEPT !.bytesInput = @ + cm.addedBytes,
                                 !.diskQueueCommitBytes = @ + 1 + Len(msgs),
                                 !.largeDiskQueueCommitBytes =
                                     @ \/ (tl.diskQueueCommitBytes + 1 + Len(msgs) > MAX_QUEUE_COMMIT_BYTES)]
    /\ UNCHANGED << ft, ks, fq, kv, commits, qcs, pops, us, sent, hist >>

\* pullAsyncData returns: the end version is reached or the generation was stopped
PullReturn(g) ==
    /\ Live(g) /\ id_data[g].startPc = "pulling"
    /\ id_data[g].stopped \/ id_data[g].version >= id_data[g].req.recoverAt
    /\ AfterPull(g, id_data[g], TRUE)
    /\ UNCHANGED << ft, ks, fq, kv, commits, qcs, pops, us, sent, hist >>

\* tLogStart after the wait for committingQueue: the reply, then tLogCore
TLogStartReply(g) ==
    /\ Live(g) /\ id_data[g].startPc = "waitCQ"
    /\ id_data[g].committingQueue # "unset"
    /\ id_data' = [id_data EXCEPT
          ![g].startPc = IF id_data[g].committingQueue = "error" THEN "dying" ELSE "core",
          ![g].serving = id_data[g].committingQueue # "error"]
    /\ UNCHANGED << ft, ks, fq, tl, dq, kv, commits, qcs, pops, us, sent, hist >>

Committing(ld) == Max(ld.queueCommittingVersion, ld.queueCommittedVersion)

\* commitQueue, outer loop: the generation that is not stopped is picked
CommitQueuePick(g) ==
    /\ tl.cqGen = 0
    /\ InIdData(g) /\ ~id_data[g].stopped
    /\ tl' = [tl EXCEPT !.cqGen = g,
                        !.cqMissing = { h \in GenIds : /\ InIdData(h) /\ id_data[h].stopped
                                                       /\ id_data[h].version > Committing(id_data[h]) }]
    /\ id_data' = [id_data EXCEPT ![g].committingQueue = IF @ = "unset" THEN "set" ELSE @]
    /\ UNCHANGED << ft, ks, fq, dq, kv, commits, qcs, pops, us, sent, hist >>

\* commitQueue, inner loop: a doQueueCommit is started, which runs to its first wait
CommitQueueSpawn ==
    /\ tl.cqGen # 0
    /\ LET g == tl.cqGen
           ld == id_data[g]
           commitNumber == tl.queueCommitBegin + 1 IN
       /\ ~(ld.stopped /\ ld.version = Committing(ld))
       /\ ld.version >= Committing(ld) + 1
       /\ tl.queueCommitBegin = tl.queueCommitEnd \/ tl.largeDiskQueueCommitBytes
       /\ qcs' = qcs \cup { [ gen |-> g, ver |-> ld.version, commitNumber |-> commitNumber,
                              knownCommittedVersion |-> ld.knownCommittedVersion,
                              missingFinalCommit |-> tl.cqMissing,
                              pushed |-> Len(dq.entries) ] }
       /\ id_data' = [id_data EXCEPT ![g].queueCommittingVersion = ld.version]
       /\ tl' = [tl EXCEPT !.queueCommitBegin = commitNumber, !.cqMissing = {},
                           !.diskQueueCommitBytes = 0, !.largeDiskQueueCommitBytes = FALSE]
    /\ UNCHANGED << ft, ks, fq, dq, kv, commits, pops, us, sent, hist >>

\* commitQueue, inner loop: the stopped generation is fully committed
CommitQueueBreak ==
    /\ tl.cqGen # 0
    /\ LET ld == id_data[tl.cqGen] IN
       /\ ld.stopped /\ ld.version = Committing(ld)
       /\ ld.queueCommittedVersion >= ld.version
    /\ tl' = [tl EXCEPT !.cqGen = 0]
    /\ UNCHANGED << ft, ks, fq, id_data, dq, kv, commits, qcs, pops, us, sent, hist >>

\* doQueueCommit after persistentQueue->commit() and the previous queue commit finished
QueueCommitDone(q) ==
    /\ q \in qcs
    /\ tl.queueCommitEnd >= q.commitNumber - 1
    /\ LET ld == id_data[q.gen]
           done == /\ ld.unpoppedRecoveredTags = 0
                   /\ q.knownCommittedVersion >= ld.recoveredAt
                   /\ ld.recoveryComplete = "unset"
           ld1 == [ld EXCEPT !.durableKnownCommittedVersion = q.knownCommittedVersion,
                             !.recoveryComplete = IF done THEN "set" ELSE @,
                             !.queueCommittedVersion = q.ver]
       IN id_data' = [h \in GenIds |->
                         IF h = q.gen THEN ld1
                         ELSE IF h \in q.missingFinalCommit /\ Live(h)
                         THEN [id_data[h] EXCEPT !.queueCommittedVersion = id_data[h].version]
                         ELSE id_data[h]]
    /\ dq' = [dq EXCEPT !.durable = Max(@, q.pushed)]
    /\ tl' = [tl EXCEPT !.queueCommitEnd = q.commitNumber]
    /\ qcs' = qcs \ {q}
    /\ UNCHANGED << ft, ks, fq, kv, commits, pops, us, sent, hist >>

\* a variant of LockReady that does not wait for the queue commit
LockReadyAtOnce(ld, stopVersion) == TRUE

\* tLogLock's wait: queueCommittedVersion.whenAtLeast(stopVersion)
LockReady(ld, stopVersion) == ld.queueCommittedVersion >= stopVersion

\* the TLogLockResult sent for a generation, with what held when it was sent
LockResult(g, ld, stopVersion, waited) ==
    [ gen |-> g, end |-> stopVersion, knownCommittedVersion |-> ld.knownCommittedVersion,
      waited |-> waited, stopped |-> ld.stopped, version |-> ld.version,
      queueCommittedVersion |-> ld.queueCommittedVersion,
      durable |-> \A i \in 1..Len(dq.entries) :
                     (dq.entries[i].id = g /\ dq.entries[i].version <= stopVersion)
                         => \E j \in 1..dq.durable : /\ dq.entries[j].id = g
                                                      /\ dq.entries[j].version = dq.entries[i].version ]

\* tLogLock (one lock request per generation) up to its wait for the queue commit,
\* and through its reply when the wait is ready at once
TLogLock(g) ==
    /\ InIdData(g) /\ id_data[g].serving
    /\ id_data[g].lock.pc = "none"
    /\ LET stopVersion == id_data[g].version
           ld == [id_data[g] EXCEPT !.stopped = TRUE,
                                    !.recoveryComplete = IF @ = "unset" THEN "error" ELSE @]
       IN IF LockReady(ld, stopVersion)
          THEN /\ id_data' = [id_data EXCEPT ![g] =
                                 [ld EXCEPT !.lock = [pc |-> "done", stopVersion |-> stopVersion]]]
               /\ hist' = [hist EXCEPT !.locks = @ \cup { LockResult(g, ld, stopVersion, FALSE) }]
          ELSE /\ id_data' = [id_data EXCEPT ![g] =
                                 [ld EXCEPT !.lock = [pc |-> "wait", stopVersion |-> stopVersion]]]
               /\ UNCHANGED hist
    /\ UNCHANGED << ft, ks, fq, tl, dq, kv, commits, qcs, pops, us, sent >>

\* tLogLock after its wait: the assertion on the version, then the reply
TLogLockReply(g) ==
    /\ Live(g) /\ id_data[g].lock.pc = "wait"
    /\ LET ld == id_data[g]
           stopVersion == ld.lock.stopVersion
       IN /\ LockReady(ld, stopVersion)
          /\ IF stopVersion = ld.version
             THEN /\ id_data' = [id_data EXCEPT ![g].lock.pc = "done"]
                  /\ hist' = [hist EXCEPT !.locks = @ \cup { LockResult(g, ld, stopVersion, TRUE) }]
             ELSE /\ id_data' = [id_data EXCEPT ![g].lock.pc = "failed"]
                  /\ UNCHANGED hist
    /\ UNCHANGED << ft, ks, fq, tl, dq, kv, commits, qcs, pops, us, sent >>

\* removeLog: the generation leaves id_data; the actors of its interface are cancelled
removeLog(g) ==
    LET ids == { h \in GenIds : InIdData(h) /\ h # g }
        RECURSIVE dropFront(_)
        dropFront(o) == IF o # <<>> /\ Head(o) \notin ids THEN dropFront(Tail(o)) ELSE o
    IN /\ id_data' = [id_data EXCEPT ![g].stopped = TRUE, ![g].removed = TRUE,
                                     ![g].serving = FALSE, ![g].startPc = "removed",
                                     ![g].lock.pc = IF @ = "wait" THEN "cancelled" ELSE @,
                                     ![g].recoveryComplete = IF @ = "unset" THEN "error" ELSE @]
       /\ tl' = [tl EXCEPT !.popOrder = dropFront(@),
                           !.peeks = { a \in @ : a.gen # g },
                           !.popWaiters = { w \in @ : w.gen # g },
                           !.persistentDataCommitLock = IF @ = << "init", g >> THEN NoActor ELSE @]
       /\ commits' = { a \in commits : a.gen # g }
       /\ pops' = { a \in pops : a.gen # g }

\* rejoinMasters finds the generation displaced: worker_removed reaches tLogCore or tLogStart
Displaced(g) ==
    /\ InIdData(g) /\ id_data[g].stopped
    /\ id_data[g].startPc # "dying"
    /\ IF id_data[g].startPc = "core"
       THEN removeLog(g)
       ELSE /\ id_data' = [id_data EXCEPT ![g].startPc = "dying"]
            /\ tl' = [tl EXCEPT !.persistentDataCommitLock = IF @ = << "init", g >> THEN NoActor ELSE @]
            /\ UNCHANGED << commits, pops >>
    /\ UNCHANGED << ft, ks, fq, dq, kv, qcs, us, sent, hist >>

\* tLogStart, the catch block after its delay(0.0)
TLogStartRemoved(g) ==
    /\ InIdData(g) /\ id_data[g].startPc = "dying"
    /\ removeLog(g)
    /\ UNCHANGED << ft, ks, fq, dq, kv, qcs, us, sent, hist >>

\* ~LogData, once no actor holds a reference to the generation
DestroyLogData(g) ==
    /\ Live(g) /\ id_data[g].removed
    /\ tl.cqGen # g /\ us.gen # g
    /\ \A q \in qcs : q.gen # g /\ g \notin q.missingFinalCommit
    /\ id_data' = [id_data EXCEPT ![g] = Gone]
    /\ tl' = [tl EXCEPT !.bytesDurable = @ + id_data[g].bytesInput - id_data[g].bytesDurable]
    /\ kv' = [kv EXCEPT !.cur.gens[g] = NoKeys]
    /\ UNCHANGED << ft, ks, fq, dq, commits, qcs, pops, us, sent, hist >>

\* TagData::eraseMessagesBefore, one iteration of its loop: the messages of the
\* first version in memory are erased and counted as durable overhead
MustErase(ld, tag, before) ==
    /\ ld.tag_data[tag].versionMessages # <<>>
    /\ Head(ld.tag_data[tag].versionMessages).version < before

\* a variant that also counts the message bytes, which commitMessages counts per block
eraseOneVersionWithPayload(ld, tag) ==
    LET vm == ld.tag_data[tag].versionMessages
        version == Head(vm).version
        messagesErased == Cardinality({ i \in 1..Len(vm) : vm[i].version = version })
        bytesErased == messagesErased * (VERSION_MESSAGES_ENTRY_BYTES_WITH_OVERHEAD + MsgBytes)
    IN [ ld |-> [ld EXCEPT !.tag_data[tag].versionMessages = SelectSeqBy(vm, FALSE, {version}),
                           !.bytesDurable = @ + bytesErased],
         bytesErased |-> bytesErased ]

eraseOneVersion(ld, tag) ==
    LET vm == ld.tag_data[tag].versionMessages
        version == Head(vm).version
        messagesErased == Cardinality({ i \in 1..Len(vm) : vm[i].version = version })
        old == IF \E e \in ld.version_sizes : e.version = version
               THEN CHOOSE e \in ld.version_sizes : e.version = version
               ELSE [version |-> version, bytes |-> 0, txs |-> 0]
        sizes == IF tag # txsTag THEN [old EXCEPT !.bytes = @ - messagesErased * MsgBytes]
                 ELSE [old EXCEPT !.txs = @ - messagesErased * MsgBytes]
        bytesErased == messagesErased * VERSION_MESSAGES_ENTRY_BYTES_WITH_OVERHEAD
    IN [ ld |-> [ld EXCEPT !.tag_data[tag].versionMessages = SelectSeqBy(vm, FALSE, {version}),
                           !.version_sizes = (@ \ {old}) \cup {sizes},
                           !.bytesDurable = @ + bytesErased],
         bytesErased |-> bytesErased ]

\* eraseMessagesBefore run to completion without an intervening actor
RECURSIVE eraseAll(_, _, _)
eraseAll(st, tag, before) ==
    IF ~MustErase(st.ld, tag, before) THEN st
    ELSE LET e == eraseOneVersion(st.ld, tag)
         IN eraseAll([ld |-> e.ld, bytesErased |-> st.bytesErased + e.bytesErased], tag, before)

\* a variant of ClearsUnpoppedRecovered that leaves out the comparison with recoveredAt
ClearsUnpoppedRecoveredAlways(td, upTo, ld) == td.unpoppedRecovered

\* tLogPopCore: the pop is the first one of a recovered tag past the recovered versions
ClearsUnpoppedRecovered(td, upTo, ld) == td.unpoppedRecovered /\ upTo > ld.recoveredAt

\* tLogPopCore up to its first yield. st carries the LogData of generation g, the
\* TLogData fields and the pop actors suspended inside eraseMessagesBefore.
tLogPopCore(st, g, tag, to) ==
    LET ld == st.ld IN
    IF st.tl.ignorePopRequest /\ tag # txsTag
    THEN [st EXCEPT !.tl.toBePopped =
             IF \E e \in @ : e.tag = tag /\ e.to >= to THEN @
             ELSE { e \in @ : e.tag # tag } \cup { [tag |-> tag, to |-> to] }]
    ELSE IF ld.tag_data[tag] = NoTagData
    THEN [st EXCEPT !.ld = createTagData(ld, tag, to, TRUE, TRUE, FALSE)]
    ELSE IF to > ld.tag_data[tag].popped
    THEN LET td == ld.tag_data[tag]
             recovered == ClearsUnpoppedRecovered(td, to, ld)
             ld1 == [ld EXCEPT !.tag_data[tag].popped = to,
                               !.tag_data[tag].poppedRecently = TRUE,
                               !.tag_data[tag].requiresPoppedLocationUpdate = TRUE,
                               !.tag_data[tag].unpoppedRecovered = IF recovered THEN FALSE ELSE @,
                               !.unpoppedRecoveredTags = IF recovered THEN @ - 1 ELSE @]
             ld2 == IF /\ recovered /\ ld1.unpoppedRecoveredTags = 0
                       /\ ld1.durableKnownCommittedVersion >= ld1.recoveredAt
                       /\ ld1.recoveryComplete = "unset"
                    THEN [ld1 EXCEPT !.recoveryComplete = "set"] ELSE ld1
             erase == to > ld.persistentDataDurableVersion /\ MustErase(ld2, tag, to)
             e == IF erase THEN eraseOneVersion(ld2, tag) ELSE [ld |-> ld2, bytesErased |-> 0]
         IN [ ld |-> e.ld,
              tl |-> [st.tl EXCEPT !.bytesDurable = @ + e.bytesErased],
              pops |-> IF erase /\ MustErase(e.ld, tag, to)
                       THEN st.pops \cup { [gen |-> g, tag |-> tag, before |-> to] }
                       ELSE st.pops ]
    ELSE st

\* tLogPop and execProcessingHelper, the replay of toBePopped in the order of the map,
\* each deferred pop through tLogPopCore with the LogData at hand
RECURSIVE playIgnoredPops(_, _, _)
playIgnoredPops(st, g, i) ==
    IF i > Len(TagOrder) THEN [st EXCEPT !.tl.toBePopped = {}]
    ELSE IF \E e \in st.tl.toBePopped : e.tag = TagOrder[i]
    THEN playIgnoredPops(tLogPopCore(st, g, TagOrder[i],
                                     (CHOOSE e \in st.tl.toBePopped : e.tag = TagOrder[i]).to),
                         g, i + 1)
    ELSE playIgnoredPops(st, g, i + 1)

\* the reset of the ignore-pops mode that precedes a replay
ResetIgnorePop(st) == [st EXCEPT !.tl.ignorePopRequest = FALSE, !.tl.ignorePopDeadlinePassed = FALSE]

\* tLogPop: a TLogPopRequest runs up to its first wait: past the ignorePopDeadline the
\* deferred pops are replayed, and the pop of the request follows once they are done
PopArrive(g, tag, to) ==
    /\ InIdData(g) /\ id_data[g].serving
    /\ Cardinality(pops) < MaxInflight
    /\ LET st0 == [ld |-> id_data[g], tl |-> tl, pops |-> pops]
           replay == tl.ignorePopRequest /\ tl.ignorePopDeadlinePassed
           st1 == IF replay THEN playIgnoredPops(ResetIgnorePop(st0), g, 1) ELSE st0
           ignoredPops == st1.pops \ pops
           st2 == IF ignoredPops # {}
                  THEN [st1 EXCEPT !.tl.popWaiters =
                            @ \cup { [gen |-> g, tag |-> tag, to |-> to, ignoredPops |-> ignoredPops] }]
                  ELSE tLogPopCore(st1, g, tag, to)
       IN /\ id_data' = [id_data EXCEPT ![g] = st2.ld]
          /\ tl' = st2.tl
          /\ pops' = st2.pops
          /\ hist' = [hist EXCEPT !.popAsked[g][tag] = Max(@, to),
                                  !.deferred = IF ~replay /\ tl.ignorePopRequest /\ tag # txsTag
                                               THEN @ \cup { [gen |-> g, tag |-> tag, to |-> to] }
                                               ELSE @]
    /\ UNCHANGED << ft, ks, fq, dq, kv, commits, qcs, us, sent >>

\* tLogPop resumes after waitForAll(ignoredPops): the pop of the request itself
PopResume(w) ==
    /\ w \in tl.popWaiters
    /\ w.ignoredPops \cap pops = {}
    /\ InIdData(w.gen)
    /\ LET st == tLogPopCore([ld |-> id_data[w.gen],
                              tl |-> [tl EXCEPT !.popWaiters = @ \ {w}], pops |-> pops],
                             w.gen, w.tag, w.to)
       IN /\ id_data' = [id_data EXCEPT ![w.gen] = st.ld]
          /\ tl' = st.tl
          /\ pops' = st.pops
          /\ hist' = [hist EXCEPT !.deferred = IF tl.ignorePopRequest /\ w.tag # txsTag
                                               THEN @ \cup { [gen |-> w.gen, tag |-> w.tag, to |-> w.to] }
                                               ELSE @]
    /\ UNCHANGED << ft, ks, fq, dq, kv, commits, qcs, us, sent >>

\* execProcessingHelper for the commands that start with \xff and set no execVersion:
\* execDisableTLogPop starts the ignore-pops mode and its deadline, execEnableTLogPop
\* ends it and replays the deferred pops
execProcessingHelper(st, g, cmd) ==
    IF cmd = "disable"
    THEN [st EXCEPT !.tl.ignorePopRequest = TRUE, !.tl.ignorePopDeadlinePassed = FALSE]
    ELSE playIgnoredPops(ResetIgnorePop(st), g, 1)

\* tLogCommit of a new request that carries messages m and execDisableTLogPop or
\* execEnableTLogPop,
\* when it runs without a wait from its arrival to the wait for the queue commit: the
\* version before is stored, there is no backpressure and no exec commit in progress.
\* (hasExecOp of the model's requests stands for a command that sets execVersion.)
ExecCommit(g, v, cmd, m) ==
    /\ Live(g) /\ id_data[g].serving
    /\ \A a \in commits : ActorId(a) # << g, v, 1 >>
    /\ \A r \in hist.replies : << r.gen, r.version, r.k >> # << g, v, 1 >>
    /\ sent[g][v] = NoReq
    /\ Cardinality(commits) < MaxInflight
    /\ v - 1 >= id_data[g].firstPrev
    /\ ~id_data[g].stopped /\ id_data[g].version = v - 1
    /\ ~Backpressure(id_data[g]) /\ ~id_data[g].execOpCommitInProgress
    /\ LET req == [prevVersion |-> v - 1, messages |-> m, knownCommittedVersion |-> 0,
                  minKnownCommittedVersion |-> 0, hasExecOp |-> FALSE]
           a == [ gen |-> g, version |-> v, k |-> 1, pc |-> "waitVersion",
                  replay |-> FALSE, pushed |-> FALSE,
                  execOpLockTaken |-> FALSE, stopSeen |-> 0 ]
           st == execProcessingHelper([ld |-> id_data[g], tl |-> tl, pops |-> pops], g, cmd)
       IN /\ CommitStoreFrom(a, FALSE, st.ld, req, st.tl)
          /\ pops' = st.pops
          /\ sent' = [sent EXCEPT ![g][v] = req]
    /\ UNCHANGED << ft, ks, fq, kv, qcs, us >>

\* now() passes ignorePopDeadline
DeadlinePasses ==
    /\ tl.ignorePopRequest /\ ~tl.ignorePopDeadlinePassed
    /\ tl' = [tl EXCEPT !.ignorePopDeadlinePassed = TRUE]
    /\ UNCHANGED << ft, ks, fq, id_data, dq, kv, commits, qcs, pops, us, sent, hist >>

\* eraseMessagesBefore resumes after its yield and erases the next version
PopErase(p) ==
    /\ p \in pops
    /\ LET ld == id_data[p.gen]
           e == IF MustErase(ld, p.tag, p.before) THEN eraseOneVersion(ld, p.tag)
                ELSE [ld |-> ld, bytesErased |-> 0]
       IN /\ id_data' = [id_data EXCEPT ![p.gen] = e.ld]
          /\ tl' = [tl EXCEPT !.bytesDurable = @ + e.bytesErased]
          /\ pops' = IF MustErase(e.ld, p.tag, p.before) THEN pops ELSE pops \ {p}
    /\ UNCHANGED << ft, ks, fq, dq, kv, commits, qcs, us, sent, hist >>

(***************************************************************************)
(* tLogPeekMessages, the peek trackers and cleanupPeekTrackers.            *)
(***************************************************************************)
\* SERVER_KNOBS values, scaled down to the model's message sizes
PARALLEL_GET_MORE_REQUESTS == 2
DESIRED_TOTAL_BYTES == 2
TLOG_SPILL_REFERENCE_MAX_BATCHES_PER_PEEK == 1
\* the bytes of int32_t(-1) and the version that precede the messages of a version
PeekHeaderBytes == 1
\* the bytes readRange and expectedSize count for a key-value pair besides its value
PeekKeyBytes == 1
\* the peek requests with a sequence of one behaviour, and the peeks in flight
MaxPeeks == 3
MaxPeekActors == 2

\* PeekTrackerData; fresh: lastUpdate is less than PEEK_TRACKER_EXPIRATION_TIME ago
NewTracker == [seqs |-> {}, fresh |-> FALSE]

\* a variant of poppedVersion that takes a tag without tag data as never popped
poppedVersionFromZero(ld, tag) ==
    IF ld.tag_data[tag] = NoTagData THEN 0 ELSE ld.tag_data[tag].popped

\* poppedVersion
poppedVersion(ld, tag) ==
    IF ld.tag_data[tag] = NoTagData THEN ld.recoveredAt ELSE ld.tag_data[tag].popped

\* the bytes of a peek reply: a header (sub 0) for each version, then its messages
Header(version) == [version |-> version, sub |-> 0]
BlobBytes(blob) ==
    Cardinality({ i \in 1..Len(blob) : blob[i].sub = 0 }) * PeekHeaderBytes
    + Cardinality({ i \in 1..Len(blob) : blob[i].sub # 0 }) * MsgBytes
\* the (version, message) pairs a subscriber decodes from the bytes
Decode(blob) == SelectSeq(blob, LAMBDA e : e.sub # 0)

\* peekMessagesFromMemory, its loop from position i of the deque
RECURSIVE peekMemoryLoop(_, _, _)
peekMemoryLoop(st, deque, i) ==
    IF i > Len(deque) THEN st
    ELSE IF deque[i].version # st.currentVersion
    THEN IF BlobBytes(st.messages) >= DESIRED_TOTAL_BYTES
         THEN [st EXCEPT !.endVersion = st.currentVersion + 1]
         ELSE peekMemoryLoop([st EXCEPT !.currentVersion = deque[i].version,
                                        !.messages = @ \o << Header(deque[i].version), deque[i] >>],
                             deque, i + 1)
    ELSE peekMemoryLoop([st EXCEPT !.messages = Append(@, deque[i])], deque, i + 1)

\* a variant of peekMessagesFromMemory that starts at the front of the deque
peekMessagesFromFront(ld, tag, reqBegin, endVersion) ==
    peekMemoryLoop([messages |-> <<>>, endVersion |-> endVersion, currentVersion |-> -1],
                   IF ld.tag_data[tag] = NoTagData THEN <<>> ELSE ld.tag_data[tag].versionMessages, 1)

\* peekMessagesFromMemory: the messages written and the endVersion
peekMessagesFromMemory(ld, tag, reqBegin, endVersion) ==
    LET deque == IF ld.tag_data[tag] = NoTagData THEN <<>> ELSE ld.tag_data[tag].versionMessages
        begin == Max(reqBegin, ld.persistentDataDurableVersion + 1)
        at == { i \in 1..Len(deque) : deque[i].version >= begin }
        first == IF at = {} THEN Len(deque) + 1 ELSE CHOOSE i \in at : \A j \in at : i <= j
    IN peekMemoryLoop([messages |-> <<>>, endVersion |-> endVersion, currentVersion |-> -1],
                      deque, first)

\* parseMessagesForTag: the messages of a commit that carry the tag
parseMessagesForTag(messages, tag, logRouters) ==
    LET match(msgtag) ==
            IF msgtag = tag THEN TRUE
            ELSE IF tag.locality = tagLocalityLogRouter /\ msgtag.locality = tagLocalityLogRouter
            THEN msgtag.id % logRouters = tag.id
            ELSE FALSE
    IN SelectSeq(messages, LAMBDA m : \E i \in 1..Len(m.tags) : match(m.tags[i]))

\* the keys of a set of (tag, version) keyed records in [begin, end) for the tag, in key order
RECURSIVE KeysInRange(_, _, _, _)
KeysInRange(S, tag, begin, end) ==
    LET in == { k \in S : k.tag = tag /\ k.version >= begin /\ k.version < end } IN
    IF in = {} THEN <<>>
    ELSE LET k == CHOOSE x \in in : \A y \in in : x.version <= y.version
         IN << k >> \o KeysInRange(S, tag, k.version + 1, end)

\* KeyValueStoreMemory::readRange of TagMsg keys: rows are added while the limits last
RECURSIVE readRangeLoop(_, _, _)
readRangeLoop(rows, rowLimit, byteLimit) ==
    IF rows = <<>> \/ rowLimit = 0 \/ byteLimit < 0 THEN <<>>
    ELSE << Head(rows) >> \o readRangeLoop(Tail(rows), rowLimit - 1,
                                           byteLimit - PeekKeyBytes - Len(Head(rows).subs) * MsgBytes)

\* VectorRef<KeyValueRef>::expectedSize
ExpectedSize(kvs) == SeqSum([i \in 1..Len(kvs) |-> PeekKeyBytes + Len(kvs[i].subs) * MsgBytes])

\* the bytes written for spilled txs rows
RECURSIVE KvMessages(_)
KvMessages(kvs) ==
    IF kvs = <<>> THEN <<>>
    ELSE << Header(Head(kvs).version) >>
         \o [i \in 1..Len(Head(kvs).subs) |-> [version |-> Head(kvs).version, sub |-> Head(kvs).subs[i]]]
         \o KvMessages(Tail(kvs))

\* tLogPeekMessages, the loops over the spilled reference batches: st carries the
\* locations to read, mutationBytes and earlyEnd
RECURSIVE refItems(_, _, _, _)
refItems(st, items, i, begin) ==
    IF i > Len(items) \/ st.earlyEnd THEN st
    ELSE IF st.mutationBytes >= DESIRED_TOTAL_BYTES THEN [st EXCEPT !.earlyEnd = TRUE]
    ELSE IF items[i].version >= begin
    THEN refItems([st EXCEPT !.locs = Append(@, items[i].begin),
                             !.mutationBytes = @ + items[i].size], items, i + 1, begin)
    ELSE refItems(st, items, i + 1, begin)

RECURSIVE refBatches(_, _, _, _)
refBatches(st, kvrefs, i, begin) ==
    IF i > Len(kvrefs) \/ i > TLOG_SPILL_REFERENCE_MAX_BATCHES_PER_PEEK \/ st.earlyEnd THEN st
    ELSE refBatches(refItems(st, kvrefs[i].items, 1, begin), kvrefs, i + 1, begin)

\* the tLogPeekMessages actor of request n
PeekActor(n, g, peekId, seq, tag, begin, onlySpilled, returnIfBlocked) ==
    [ n |-> n, gen |-> g, peekId |-> peekId, seq |-> seq, tag |-> tag, reqBegin |-> begin,
      begin |-> begin, onlySpilled |-> onlySpilled, returnIfBlocked |-> returnIfBlocked,
      pc |-> "start", fut |-> "none", futVer |-> 0,
      locs |-> <<>>, earlyEnd |-> FALSE, messages2 |-> <<>>, endVersion |-> 0,
      poppedVer |-> 0 ]

\* a TLogPeekReply, or the error sent instead, with the request it answers and the
\* poppedVer the actor read
PeekReply(a, error, end, popped, messages, onlySpilled, early) ==
    [ n |-> a.n, gen |-> a.gen, peekId |-> a.peekId, seq |-> a.seq, tag |-> a.tag,
      reqBegin |-> a.reqBegin, begin |-> a.begin, reqOnlySpilled |-> a.onlySpilled,
      poppedVer |-> a.poppedVer, error |-> error, end |-> end,
      popped |-> popped, messages |-> messages, onlySpilled |-> onlySpilled, early |-> early ]
PeekError(a, error) == PeekReply(a, error, 0, 0, <<>>, FALSE, FALSE)

TrackerOf(pt, peekId) == IF pt[peekId] = NoTracker THEN NewTracker ELSE pt[peekId]
IsEntry(tr, s) == \E e \in tr.seqs : e.seq = s
EntryOf(tr, s) == IF IsEntry(tr, s) THEN CHOOSE e \in tr.seqs : e.seq = s
                  ELSE [seq |-> s, isSet |-> FALSE, ver |-> 0]
FirstSeq(tr) == CHOOSE s \in { e.seq : e \in tr.seqs } : \A e \in tr.seqs : s <= e.seq

\* Promise::send and sendError on an entry of sequence_version: the actors that wait
\* on its future are made ready
Fulfil(peeks, peekId, S, fut, ver) ==
    { IF b.pc = "waitSeq" /\ b.fut = "pending" /\ b.peekId = peekId /\ b.seq \in S
      THEN [b EXCEPT !.fut = fut, !.futVer = ver] ELSE b : b \in peeks }

\* a variant of RecordEnd that overwrites the version recorded for the sequence
RecordEndOverwrite(tr, e, end) ==
    [ ok |-> TRUE, send |-> TRUE,
      tr |-> [tr EXCEPT !.seqs = { x \in @ : x.seq # e.seq } \cup
                                     { [seq |-> e.seq, isSet |-> TRUE, ver |-> end] }] ]

\* tLogPeekMessages, the entry of sequence+1 at the end of a peek: a version already
\* recorded must be the end computed, else the end is recorded
RecordEnd(tr, e, end) ==
    IF e.isSet
    THEN [ ok |-> e.ver = end, send |-> FALSE, tr |-> [tr EXCEPT !.seqs = @ \cup {e}] ]
    ELSE [ ok |-> TRUE, send |-> TRUE,
           tr |-> [tr EXCEPT !.seqs = { x \in @ : x.seq # e.seq } \cup
                                          { [seq |-> e.seq, isSet |-> TRUE, ver |-> end] }] ]

\* tLogPeekMessages from the tracker update at its end to the reply. st carries the
\* trackers, the other actors, the ends recorded and the reply; the record of a
\* timed_out sent here keeps the end that was computed.
PeekFinish(st, a, end, popped, messages, onlySpilled, early) ==
    LET reply == PeekReply(a, "", end, popped, messages, onlySpilled, early)
        refused == PeekReply(a, "timed_out", end, 0, <<>>, FALSE, FALSE)
        tr == [TrackerOf(st.pt, a.peekId) EXCEPT !.fresh = TRUE]
        recorded(r) ==
            IF ~r.ok THEN [st EXCEPT !.pt[a.peekId] = r.tr, !.reply = refused]
            ELSE [st EXCEPT !.pt[a.peekId] = r.tr, !.reply = reply,
                            !.peeks = IF r.send THEN Fulfil(@, a.peekId, {a.seq + 1}, "ready", end)
                                      ELSE @,
                            !.recorded = IF r.send
                                         THEN @ \cup { [peekId |-> a.peekId, seq |-> a.seq + 1, ver |-> end] }
                                         ELSE @]
    IN IF a.peekId = 0 THEN [st EXCEPT !.reply = reply]
       ELSE IF tr.seqs # {} /\ a.seq + 1 < FirstSeq(tr)
       THEN [st EXCEPT !.pt[a.peekId] = tr, !.reply = refused]
       ELSE recorded(RecordEnd(tr, EntryOf(tr, a.seq + 1), end))

\* tLogPeekMessages after the reads of the disk queue: the entries read are parsed
\* for the tag. readable: a location below the pop point could still be read.
RECURSIVE refMessages(_, _, _)
refMessages(locs, tag, logRouters) ==
    IF locs = <<>> THEN <<>>
    ELSE LET entry == dq.entries[Head(locs) + 1]
             msgs == parseMessagesForTag(entry.messages, tag, logRouters)
         IN << Header(entry.version) >>
            \o [i \in 1..Len(msgs) |-> [version |-> entry.version, sub |-> msgs[i].sub]]
            \o refMessages(Tail(locs), tag, logRouters)

PeekAfterQueueRead(st, a, ld, readable) ==
    LET lost == \E i \in 1..Len(a.locs) : a.locs[i] < dq.popped \/ a.locs[i] >= Len(dq.entries)
        messages == refMessages(a.locs, a.tag, ld.logRouterTags)
        lastRefMessageVersion == IF a.locs = <<>> THEN 0
                                 ELSE dq.entries[a.locs[Len(a.locs)] + 1].version
    IN IF lost /\ ~readable THEN [st EXCEPT !.reply = PeekError(a, "io_error")]
       ELSE IF a.earlyEnd
       THEN PeekFinish(st, a, lastRefMessageVersion + 1, 0, messages, TRUE, FALSE)
       ELSE PeekFinish(st, a, a.endVersion, 0, messages \o a.messages2, FALSE, FALSE)

\* a variant of IsPopped that also takes begin = popped for popped
IsPoppedOrAt(poppedVer, begin) == poppedVer >= begin

\* tLogPeekMessages, the test of poppedVer against req.begin
IsPopped(poppedVer, begin) == poppedVer > begin

\* a variant of PoppedReply that ends at the version after the last one
PoppedReplyAtVersion(st, a, ld, poppedVer) ==
    PeekFinish(st, a, ld.version + 1, poppedVer, <<>>, FALSE, TRUE)

\* tLogPeekMessages, the reply to a peek that begins below poppedVer
PoppedReply(st, a, ld, poppedVer) ==
    PeekFinish(st, a, poppedVer, poppedVer, <<>>, FALSE, TRUE)

\* tLogPeekMessages from the popped check on, to the reply or the reads of the disk queue
PeekServe(st, a0, ld) ==
    LET poppedVer == poppedVersion(ld, a0.tag)
        a == [a0 EXCEPT !.poppedVer = poppedVer]
        durable == ld.persistentDataDurableVersion
        keys == kv.cur.gens[a.gen]
        mem == IF a.onlySpilled THEN [messages |-> <<>>, endVersion |-> durable + 1]
               ELSE peekMessagesFromMemory(ld, a.tag, a.begin, ld.version + 1)
        txs(kvs) ==
            IF ExpectedSize(kvs) >= DESIRED_TOTAL_BYTES
            THEN PeekFinish(st, a, kvs[Len(kvs)].version + 1, 0, KvMessages(kvs), TRUE, FALSE)
            ELSE PeekFinish(st, a, mem.endVersion, 0, KvMessages(kvs) \o mem.messages, FALSE, FALSE)
        refs(kvrefs) ==
            LET r == refBatches([locs |-> <<>>, mutationBytes |-> 0, earlyEnd |-> FALSE],
                                kvrefs, 1, a.begin)
            IN [st EXCEPT !.peeks = @ \cup
                   { [a EXCEPT !.pc = "readQueue", !.locs = r.locs,
                               !.earlyEnd = r.earlyEnd
                                   \/ Len(kvrefs) >= TLOG_SPILL_REFERENCE_MAX_BATCHES_PER_PEEK + 1,
                               !.messages2 = mem.messages, !.endVersion = mem.endVersion] }]
    IN IF IsPopped(poppedVer, a.begin)
       THEN PoppedReply(st, a, ld, poppedVer)
       ELSE IF a.begin <= durable
       THEN IF a.tag = txsTag
            THEN txs(readRangeLoop(KeysInRange(IF keys = NoKeys THEN {} ELSE keys.msgs,
                                               a.tag, a.begin, durable + 1),
                                   DESIRED_TOTAL_BYTES, DESIRED_TOTAL_BYTES))
            ELSE refs(SubSeq(KeysInRange(IF keys = NoKeys THEN {} ELSE keys.refs,
                                         a.tag, a.begin, durable + 1),
                             1, Min(TLOG_SPILL_REFERENCE_MAX_BATCHES_PER_PEEK + 1,
                                    Len(KeysInRange(IF keys = NoKeys THEN {} ELSE keys.refs,
                                                    a.tag, a.begin, durable + 1)))))
       ELSE PeekFinish(st, a, mem.endVersion, 0, mem.messages, FALSE, FALSE)

Suspend(st, a, pc) == [st EXCEPT !.peeks = @ \cup { [a EXCEPT !.pc = pc] }]

\* tLogPeekMessages from the delay for spilled data on
PeekSpilled(st, a, ld) ==
    IF a.begin <= ld.persistentDataDurableVersion /\ a.tag # txsTag
    THEN Suspend(st, a, "spilledDelay")
    ELSE PeekServe(st, a, ld)

\* tLogPeekMessages from concurrentLogRouterReads on
PeekRouter(st, a, ld) ==
    IF a.tag.locality = tagLocalityLogRouter THEN Suspend(st, a, "routerDelay")
    ELSE PeekSpilled(st, a, ld)

\* tLogPeekMessages from returnIfBlocked and the wait for the version on
PeekBlocked(st, a, ld) ==
    IF a.returnIfBlocked /\ ld.version < a.begin
    THEN [st EXCEPT !.reply = PeekError(a, "end_of_stream")]
    ELSE IF ld.version < a.begin THEN Suspend(st, a, "waitVersion")
    ELSE PeekRouter(st, a, ld)

\* a variant of SequenceWaits under which no request waits for its sequence
SequenceWaitsNever(a) == FALSE

\* tLogPeekMessages, the requests that wait on the tracker: a sequence above 0
SequenceWaits(a) == a.peekId # 0 /\ a.seq > 0

\* tLogPeekMessages, the sequence of the request: old entries of the tracker are
\* failed and erased, and the actor waits for the entry of its sequence
PeekSequence(st, a, ld) ==
    IF ~SequenceWaits(a) THEN PeekBlocked(st, a, ld)
    ELSE LET tr0 == TrackerOf(st.pt, a.peekId)
             old == { e \in tr0.seqs : e.seq <= a.seq - PARALLEL_GET_MORE_REQUESTS }
             tr1 == [tr0 EXCEPT !.seqs = @ \ old]
             st1 == [st EXCEPT !.peeks = Fulfil(@, a.peekId,
                                                { e.seq : e \in { x \in old : ~x.isSet } }, "error", 0)]
             e == EntryOf(tr1, a.seq)
             tr2 == [tr1 EXCEPT !.fresh = TRUE, !.seqs = @ \cup {e}]
         IN IF tr1.seqs # {} /\ a.seq < FirstSeq(tr1)
            THEN [st1 EXCEPT !.pt[a.peekId] = tr1, !.reply = PeekError(a, "timed_out")]
            ELSE [st1 EXCEPT !.pt[a.peekId] = tr2,
                             !.peeks = @ \cup { [a EXCEPT !.pc = "waitSeq",
                                                         !.fut = IF e.isSet THEN "ready" ELSE "pending",
                                                         !.futVer = e.ver] }]

\* the trackers, the other actors and the history a step of actor a starts from
PeekState(a) == [ pt |-> tl.peekTracker, peeks |-> tl.peeks \ {a},
                  recorded |-> hist.recorded, reply |-> NoReply ]

\* the variables after a step of tLogPeekMessages
PeekDone(st) ==
    /\ tl' = [tl EXCEPT !.peekTracker = st.pt, !.peeks = st.peeks]
    /\ hist' = [hist EXCEPT !.recorded = st.recorded,
                            !.peek = IF st.reply = NoReply THEN @ ELSE st.reply]
    /\ UNCHANGED << ft, ks, fq, id_data, dq, kv, commits, qcs, pops, us, sent >>

\* serveTLogInterface receives a TLogPeekRequest; tLogPeekMessages runs to its first wait
PeekArrive(g, peekId, seq, tag, begin, onlySpilled, returnIfBlocked) ==
    /\ InIdData(g) /\ id_data[g].serving
    /\ peekId # 0 => hist.peekCount < MaxPeeks
    /\ Cardinality(tl.peeks) < MaxPeekActors
    /\ LET a == PeekActor(IF peekId = 0 THEN 0 ELSE hist.peekCount + 1,
                          g, peekId, seq, tag, begin, onlySpilled, returnIfBlocked)
           done(st) ==
               /\ tl' = [tl EXCEPT !.peekTracker = st.pt, !.peeks = st.peeks]
               /\ hist' = [hist EXCEPT !.recorded = st.recorded,
                                       !.peekCount = IF peekId = 0 THEN @ ELSE @ + 1,
                                       !.peek = IF st.reply = NoReply THEN @ ELSE st.reply]
       IN done(PeekSequence(PeekState(a), a, id_data[g]))
    /\ UNCHANGED << ft, ks, fq, id_data, dq, kv, commits, qcs, pops, us, sent >>

\* tLogPeekMessages resumes after the wait for its sequence (and the yield that follows)
PeekSequenceReady(a) ==
    /\ a \in tl.peeks /\ a.pc = "waitSeq" /\ a.fut # "pending"
    /\ IF a.fut = "error"
       THEN PeekDone([PeekState(a) EXCEPT !.reply = PeekError(a, "timed_out")])
       ELSE PeekDone(PeekBlocked(PeekState(a), [a EXCEPT !.begin = a.futVer], id_data[a.gen]))

\* tLogPeekMessages resumes after the wait for the version and TLOG_PEEK_DELAY
PeekVersionReady(a) ==
    /\ a \in tl.peeks /\ a.pc = "waitVersion"
    /\ id_data[a.gen].version >= a.begin
    /\ PeekDone(PeekRouter(PeekState(a), a, id_data[a.gen]))

\* tLogPeekMessages resumes with its permit of concurrentLogRouterReads, after delay(0.0)
PeekRouterReady(a) ==
    /\ a \in tl.peeks /\ a.pc = "routerDelay"
    /\ PeekDone(PeekSpilled(PeekState(a), a, id_data[a.gen]))

\* tLogPeekMessages resumes after the delay of a peek of spilled data
PeekSpilledReady(a) ==
    /\ a \in tl.peeks /\ a.pc = "spilledDelay"
    /\ PeekDone(PeekServe(PeekState(a), a, id_data[a.gen]))

\* tLogPeekMessages resumes after peekMemoryLimiter and the reads of the disk queue
PeekQueueRead(a, readable) ==
    /\ a \in tl.peeks /\ a.pc = "readQueue"
    /\ PeekDone(PeekAfterQueueRead(PeekState(a), a, id_data[a.gen], readable))

\* PEEK_TRACKER_EXPIRATION_TIME passes without an update of any tracker
TrackersAge ==
    /\ \E p \in DOMAIN tl.peekTracker : tl.peekTracker[p] # NoTracker /\ tl.peekTracker[p].fresh
    /\ tl' = [tl EXCEPT !.peekTracker =
                 [p \in DOMAIN @ |-> IF @[p] = NoTracker THEN NoTracker ELSE [@[p] EXCEPT !.fresh = FALSE]]]
    /\ UNCHANGED << ft, ks, fq, id_data, dq, kv, commits, qcs, pops, us, sent, hist >>

\* a variant of cleanupPeekTrackers that erases the expired trackers and leaves their
\* waiters waiting
cleanupPeekTrackersSilent ==
    LET expired == { p \in DOMAIN tl.peekTracker :
                       tl.peekTracker[p] # NoTracker /\ ~tl.peekTracker[p].fresh }
    IN /\ expired # {}
       /\ tl' = [tl EXCEPT !.peekTracker = [p \in DOMAIN @ |-> IF p \in expired THEN NoTracker ELSE @[p]]]
       /\ UNCHANGED << ft, ks, fq, id_data, dq, kv, commits, qcs, pops, us, sent, hist >>

\* cleanupPeekTrackers: the expired trackers are erased and their waiters failed
cleanupPeekTrackers ==
    LET expired == { p \in DOMAIN tl.peekTracker :
                       tl.peekTracker[p] # NoTracker /\ ~tl.peekTracker[p].fresh }
        RECURSIVE fail(_, _)
        fail(peeks, P) ==
            IF P = {} THEN peeks
            ELSE LET p == CHOOSE x \in P : TRUE
                 IN fail(Fulfil(peeks, p, { e.seq : e \in { x \in tl.peekTracker[p].seqs : ~x.isSet } },
                                "error", 0), P \ {p})
    IN /\ expired # {}
       /\ tl' = [tl EXCEPT !.peekTracker = [p \in DOMAIN @ |-> IF p \in expired THEN NoTracker ELSE @[p]],
                           !.peeks = fail(@, expired)]
       /\ UNCHANGED << ft, ks, fq, id_data, dq, kv, commits, qcs, pops, us, sent, hist >>

\* a variant of SubsAt that finds no message
SubsAtNone(vm, v) == <<>>

\* the distinct versions of a deque of (version, message), in order
RECURSIVE VersionsOf(_)
VersionsOf(vm) ==
    IF vm = <<>> THEN <<>>
    ELSE LET rest == VersionsOf(Tail(vm)) IN
         IF rest # <<>> /\ Head(rest) = Head(vm).version THEN rest
         ELSE << Head(vm).version >> \o rest

SubsAt(vm, v) == LET ms == SelectSeqBy(vm, TRUE, {v}) IN [i \in 1..Len(ms) |-> ms[i].sub]

\* LogData::versionLocation[v] (the map's operator[] yields an empty range for a missing key)
LocOf(ld, v) ==
    IF \E e \in ld.versionLocation : e.version = v
    THEN CHOOSE e \in ld.versionLocation : e.version = v
    ELSE [version |-> v, begin |-> 0, end |-> 0]

\* versionLocation.lower_bound(v): the entry of the first version >= v, if any
LowerBound(ld, v) == { e \in ld.versionLocation :
                         /\ e.version >= v
                         /\ \A f \in ld.versionLocation : f.version >= v => e.version <= f.version }

\* updatePersistentData, spilling one tag by reference: st carries the keys, the
\* batch being written and the first location seen
RECURSIVE spillRefs(_, _, _, _)
spillRefs(st, ld, tag, vs) ==
    LET flush(s) == [s EXCEPT !.keys.refs = { e \in @ : ~(e.tag = tag /\ e.version = s.lastVersion) } \cup
                                  { [tag |-> tag, version |-> s.lastVersion, items |-> s.batch] },
                              !.batch = <<>>, !.poppedLocation = Min(@, s.firstLocation)]
    IN IF vs = <<>>
       THEN IF st.batch # <<>> THEN flush(st) ELSE st
       ELSE LET v == Head(vs)
                loc == LocOf(ld, v)
                item == [version |-> v, begin |-> loc.begin, length |-> loc.end - loc.begin,
                         size |-> Len(SubsAt(ld.tag_data[tag].versionMessages, v)) * MsgBytes]
                add(s) == [s EXCEPT !.batch = Append(@, item), !.lastVersion = Max(@, v),
                                    !.firstLocation = Min(@, loc.begin)]
                full(s) == IF Len(s.batch) >= TLOG_SPILL_REFERENCE_MAX_ITEMS_PER_BATCH
                           THEN flush(s) ELSE s
            IN spillRefs(full(add(st)), ld, tag, Tail(vs))

\* larger than any location of the bounded queue
MaxLocation == 99

\* updatePersistentData, the body of its loop for one tag that has TagData
spillTag(ld0, keys0, tag, newPersistentDataVersion) ==
    LET spill(p, bytesErased) ==
          LET vm == p.ld.tag_data[tag].versionMessages
              vs == SelectSeq(VersionsOf(vm), LAMBDA v : v <= newPersistentDataVersion)
              ld1 == IF vs # <<>> THEN [p.ld EXCEPT !.tag_data[tag].nothingPersistent = FALSE] ELSE p.ld
              byRef(r) == [ ld |-> [ld1 EXCEPT !.tag_data[tag].poppedLocation = r.poppedLocation],
                            bytesErased |-> bytesErased, keys |-> r.keys ]
          IN IF tag = txsTag
             THEN [ ld |-> ld1, bytesErased |-> bytesErased,
                    keys |-> [p.keys EXCEPT !.msgs =
                                { k \in @ : ~(k.tag = tag /\ k.version \in SeqToSet(vs)) } \cup
                                { [tag |-> tag, version |-> v, subs |-> SubsAt(vm, v)] : v \in SeqToSet(vs) }] ]
             ELSE byRef(spillRefs([keys |-> p.keys, batch |-> <<>>, lastVersion |-> -1,
                                   firstLocation |-> MaxLocation,
                                   poppedLocation |-> ld1.tag_data[tag].poppedLocation],
                                  ld1, tag, vs))
        erased(e) == spill(updatePersistentPopped(e.ld, keys0, tag), e.bytesErased)
    IN erased(eraseAll([ld |-> ld0, bytesErased |-> 0], tag, ld0.tag_data[tag].popped))

\* updatePersistentData, its first loop over tag_data from position i on
RECURSIVE spillTags(_, _, _)
spillTags(st, i, newPersistentDataVersion) ==
    LET next(r) == spillTags([ld |-> r.ld, keys |-> r.keys, bytesErased |-> st.bytesErased + r.bytesErased],
                             i + 1, newPersistentDataVersion)
    IN IF i > Len(TagOrder) THEN st
       ELSE IF st.ld.tag_data[TagOrder[i]] = NoTagData THEN spillTags(st, i + 1, newPersistentDataVersion)
       ELSE next(spillTag(st.ld, st.keys, TagOrder[i], newPersistentDataVersion))

\* updatePersistentData, its second loop over tag_data from position i on
RECURSIVE eraseTags(_, _, _)
eraseTags(st, i, before) ==
    IF i > Len(TagOrder) THEN st
    ELSE IF st.ld.tag_data[TagOrder[i]] = NoTagData THEN eraseTags(st, i + 1, before)
    ELSE eraseTags(eraseAll(st, TagOrder[i], before), i + 1, before)

\* LogData::version_sizes in version order
RECURSIVE SortedSizes(_)
SortedSizes(S) ==
    IF S = {} THEN <<>>
    ELSE LET m == CHOOSE e \in S : \A f \in S : e.version <= f.version
         IN << m >> \o SortedSizes(S \ {m})

\* updateStorage, the loops that choose the version to spill to. st carries
\* totalSize and nextVersion; relaxed is the stopped branch, which ignores the threshold
RECURSIVE chooseNextVersion(_, _, _, _)
chooseNextVersion(st, ld, sizes, relaxed) ==
    IF /\ st.totalSize < REFERENCE_SPILL_UPDATE_STORAGE_BYTE_LIMIT
       /\ sizes # <<>>
       /\ \/ relaxed
          \/ ld.bytesInput - ld.bytesDurable - st.totalSize >= TLOG_SPILL_THRESHOLD
          \/ Head(sizes).bytes = 0
    THEN chooseNextVersion(
             [ totalSize |-> st.totalSize + Head(sizes).bytes + Head(sizes).txs,
               nextVersion |-> IF Tail(sizes) = <<>> THEN ld.version ELSE Head(Tail(sizes)).version ],
             ld, Tail(sizes), relaxed)
    ELSE st

\* updateStorage from its start to the wait for the queue commit of nextVersion
\* (us.loopGen: the stopped generation whose spill loop is being continued)
UpdateStorageBegin ==
    /\ us.pc = "idle"
    /\ LET RECURSIVE dropFront(_)
           dropFront(o) == IF o # <<>> /\ ~InIdData(Head(o)) THEN dropFront(Tail(o)) ELSE o
           order == dropFront(tl.spillOrder)
       IN /\ order # <<>>
          /\ LET g == Head(order)
                 ld == id_data[g]
                 sizes == SortedSizes(ld.version_sizes)
             IN IF ld.stopped
                THEN /\ us.loopGen = g \/ tl.bytesInput - tl.bytesDurable >= TLOG_SPILL_THRESHOLD
                     /\ IF ld.persistentDataDurableVersion # ld.version
                        THEN LET c == chooseNextVersion([totalSize |-> 0, nextVersion |-> ld.version],
                                                        ld, sizes, TRUE)
                             IN /\ us' = [pc |-> "waitQC", gen |-> g, nextVersion |-> c.nextVersion,
                                          totalSize |-> c.totalSize, loopGen |-> g]
                                /\ tl' = [tl EXCEPT !.spillOrder = order]
                        ELSE /\ tl' = [tl EXCEPT !.spillOrder = Tail(order)]
                             /\ us' = UsIdle
                ELSE /\ ld.initialized
                     /\ LET c == IF sizes = <<>> THEN [totalSize |-> 0, nextVersion |-> ld.version]
                                 ELSE chooseNextVersion([totalSize |-> 0, nextVersion |-> 0],
                                                        ld, sizes, FALSE)
                        IN us' = [pc |-> "waitQC", gen |-> g, nextVersion |-> c.nextVersion,
                                  totalSize |-> c.totalSize, loopGen |-> 0]
                     /\ tl' = [tl EXCEPT !.spillOrder = order]
    /\ UNCHANGED << ft, ks, fq, id_data, dq, kv, commits, qcs, pops, sent, hist >>

\* the state of updateStorage when one pass is over
UsDone(ld) ==
    IF us.loopGen # 0 /\ ~ld.removed /\ ld.persistentDataDurableVersion # ld.version
    THEN [UsIdle EXCEPT !.loopGen = us.loopGen] ELSE UsIdle

\* updateStorage after the queue commit of nextVersion: it takes persistentDataCommitLock
\* and runs updatePersistentData up to persistentData->commit(), or has nothing to spill.
\* The tags are spilled in one step: between two tags only actors that leave the
\* tags already visited and the versions up to nextVersion alone can run.
UpdateStorageSpill ==
    /\ us.pc = "waitQC"
    /\ LET ld == id_data[us.gen] IN
       /\ ld.queueCommittedVersion >= us.nextVersion
       /\ IF us.nextVersion > ld.persistentDataVersion
          THEN /\ tl.persistentDataCommitLock = NoActor
               /\ kv.committing = NoStore
               /\ LET write(r) ==
                        LET lb == LowerBound(r.ld, us.nextVersion)
                            cur == [kv.cur EXCEPT
                                      !.recoveryLocation =
                                          IF lb # {} THEN (CHOOSE e \in lb : TRUE).begin ELSE @,
                                      !.gens[us.gen] =
                                          [r.keys EXCEPT !.version = us.nextVersion,
                                                         !.knownCommitted = r.ld.knownCommittedVersion]]
                        IN /\ kv' = [kv EXCEPT !.cur = cur, !.committing = cur]
                           /\ id_data' = [id_data EXCEPT ![us.gen] =
                                              [r.ld EXCEPT !.persistentDataVersion = us.nextVersion]]
                           /\ tl' = [tl EXCEPT !.persistentDataCommitLock = << "updateStorage" >>,
                                               !.bytesDurable = @ + r.bytesErased]
                  IN write(spillTags([ld |-> ld, keys |-> kv.cur.gens[us.gen], bytesErased |-> 0],
                                     1, us.nextVersion))
               /\ us' = [us EXCEPT !.pc = "kvCommit"]
          ELSE /\ us' = UsDone(ld)
               /\ UNCHANGED << tl, kv, id_data >>
    /\ UNCHANGED << ft, ks, fq, dq, commits, qcs, pops, sent, hist >>

\* updatePersistentData after the commit: the spilled version is durable and the
\* spilled messages are erased from memory
SpillDurable ==
    /\ us.pc = "kvCommit"
    /\ kv.committing = NoStore
    /\ LET done(e) == /\ id_data' = [id_data EXCEPT ![us.gen] = e.ld]
                      /\ tl' = [tl EXCEPT !.bytesDurable = @ + e.bytesErased]
       IN done(eraseTags([ ld |-> [id_data[us.gen] EXCEPT
                                      !.persistentDataDurableVersion = us.nextVersion],
                           bytesErased |-> 0 ], 1, us.nextVersion + 1))
    /\ us' = [us EXCEPT !.pc = "erase"]
    /\ UNCHANGED << ft, ks, fq, dq, kv, commits, qcs, pops, sent, hist >>

\* updatePoppedLocation of one tag
updatePoppedLocation(ld, keys, tag) ==
    LET td == ld.tag_data[tag] IN
    IF tag = txsTag \/ ~td.requiresPoppedLocationUpdate THEN ld
    ELSE LET found == { e \in keys.refs : /\ e.tag = tag /\ e.version >= td.popped
                                          /\ e.version < ld.persistentDataVersion + 1 }
             first == CHOOSE e \in found : \A f \in found : e.version <= f.version
             hits == IF found = {} THEN {}
                     ELSE { i \in 1..Len(first.items) : first.items[i].version >= td.popped }
             td1 == [td EXCEPT !.requiresPoppedLocationUpdate = FALSE]
             td2 == IF td.popped <= ld.persistentDataVersion
                    THEN IF found = {} THEN [td1 EXCEPT !.nothingPersistent = TRUE]
                         ELSE IF hits # {}
                         THEN [td1 EXCEPT !.poppedLocation =
                                   first.items[CHOOSE i \in hits : \A j \in hits : i <= j].begin]
                         ELSE td1
                    ELSE td1
             lb == LowerBound(ld, td.popped)
             td3 == IF (td.popped >= ld.persistentDataVersion \/ td2.nothingPersistent) /\ lb # {}
                    THEN [td2 EXCEPT !.poppedLocation = (CHOOSE e \in lb : TRUE).begin]
                    ELSE td2
         IN [ld EXCEPT !.tag_data[tag] = td3]

RECURSIVE updatePoppedLocations(_, _, _)
updatePoppedLocations(ld, keys, i) ==
    IF i > Len(TagOrder) THEN ld
    ELSE IF ld.tag_data[TagOrder[i]] = NoTagData THEN updatePoppedLocations(ld, keys, i + 1)
    ELSE updatePoppedLocations(updatePoppedLocation(ld, keys, TagOrder[i]), keys, i + 1)

SetMin(S, default) == IF S = {} THEN default ELSE CHOOSE x \in S : \A y \in S : x <= y

\* popDiskQueue: the LogData afterwards and the location handed to TLogQueue::pop
popDiskQueue(ld0, keys, queueCommitEnd) ==
    LET pop(ld) ==
          LET lb == LowerBound(ld, ld.persistentDataVersion)
              minLocation0 == IF lb # {} THEN (CHOOSE e \in lb : TRUE).begin ELSE 0
              minVersion0 == IF lb # {} THEN (CHOOSE e \in lb : TRUE).version ELSE 0
              held == { t \in Tags : /\ ld.tag_data[t] # NoTagData /\ t # txsTag
                                     /\ ~ld.tag_data[t].nothingPersistent }
              minLocation == SetMin({minLocation0} \cup { ld.tag_data[t].poppedLocation : t \in held }, 0)
              minVersion == SetMin({minVersion0} \cup { ld.tag_data[t].popped : t \in held }, 0)
              lc == LowerBound(ld, ld.queueCommittedVersion)
              lastCommittedLocation == IF lc # {} THEN (CHOOSE e \in lc : TRUE).begin ELSE minLocation
          IN IF queueCommitEnd > 0
             THEN [ ld |-> [ld EXCEPT !.queuePoppedVersion = Max(@, minVersion)],
                    pop |-> Min(minLocation, lastCommittedLocation) ]
             ELSE [ld |-> ld, pop |-> 0]
    IN IF ~ld0.initialized THEN [ld |-> ld0, pop |-> 0]
       ELSE pop(updatePoppedLocations(ld0, keys, 1))

\* TLogQueue::forgetBefore
forgetBefore(ld, upToVersion) ==
    LET below == { e.version : e \in { f \in ld.versionLocation : f.version < upToVersion } }
        keepFrom == CHOOSE v \in below : \A w \in below : v >= w
    IN IF below = {} THEN ld
       ELSE [ld EXCEPT !.versionLocation = { e \in @ : e.version >= keepFrom }]

\* updatePersistentData: message blocks up to the new version are released
RECURSIVE popBlocks(_, _)
popBlocks(st, newPersistentDataVersion) ==
    IF st.ld.messageBlocks # <<>> /\ Head(st.ld.messageBlocks).version <= newPersistentDataVersion
    THEN LET bytesErased == Head(st.ld.messageBlocks).size * TLOG_MESSAGE_BLOCK_OVERHEAD_FACTOR
         IN popBlocks([ ld |-> [st.ld EXCEPT !.messageBlocks = Tail(@),
                                             !.bytesDurable = @ + bytesErased],
                        bytesErased |-> st.bytesErased + bytesErased ],
                      newPersistentDataVersion)
    ELSE st

\* updatePersistentData from the erase of version_sizes to its end, then
\* popDiskQueue and the release of persistentDataCommitLock in updateStorage
SpillFinish ==
    /\ us.pc = "erase"
    /\ LET front == IF tl.popOrder # <<>> THEN Head(tl.popOrder) ELSE 0
           anyTag == \E t \in Tags : id_data[us.gen].tag_data[t] # NoTagData
           forget(ld) == IF tl.queueCommitEnd > 0 /\ anyTag THEN forgetBefore(ld, us.nextVersion) ELSE ld
           popped(ids, pq, bytesErased) ==
               /\ id_data' = IF front # 0 THEN [ids EXCEPT ![front] = pq.ld] ELSE ids
               /\ dq' = [dq EXCEPT !.popped = Max(@, pq.pop)]
               /\ tl' = [tl EXCEPT !.bytesDurable = @ + bytesErased,
                                   !.persistentDataCommitLock = NoActor]
               /\ us' = UsDone(ids[us.gen])
           spilled(ids, bytesErased) ==
               popped(ids,
                      IF front # 0 THEN popDiskQueue(ids[front], kv.cur.gens[front], tl.queueCommitEnd)
                      ELSE [ld |-> ids[us.gen], pop |-> 0],
                      bytesErased)
           blocks(b) == spilled([id_data EXCEPT ![us.gen] = forget(b.ld)], b.bytesErased)
       IN blocks(popBlocks([ ld |-> [id_data[us.gen] EXCEPT !.version_sizes =
                                        { e \in @ : e.version >= id_data[us.gen].persistentDataDurableVersion }],
                             bytesErased |-> 0 ], us.nextVersion))
    /\ UNCHANGED << ft, ks, fq, kv, commits, qcs, pops, sent, hist >>

\* a variant of Crash in which the commit in flight lands without its
\* recoveryLocation key
CrashSplitsCommit(n, landed) ==
    /\ hist.crashes < MaxCrashes
    /\ kv.durable.format
    /\ n \in dq.durable..Len(dq.entries)
    /\ landed => kv.committing # NoStore
    /\ LET store == IF landed
                    THEN [kv.committing EXCEPT !.recoveryLocation = kv.durable.recoveryLocation]
                    ELSE kv.durable IN
       kv' = [cur |-> store, committing |-> NoStore, durable |-> store]
    /\ dq' = [dq EXCEPT !.entries = SubSeq(@, 1, n), !.durable = n]
    /\ id_data' = [g \in GenIds |-> NoGen]
    /\ tl' = [NewTLogData EXCEPT !.restore = [pc |-> "begin", pos |-> 0]]
    /\ commits' = {} /\ qcs' = {} /\ pops' = {}
    /\ us' = UsIdle
    /\ hist' = [hist EXCEPT !.crashes = @ + 1]
    /\ UNCHANGED << ft, ks, fq, sent >>

\* the process dies and is started again on the same files. Of the disk queue a
\* prefix that holds every committed entry survives, of persistentData the last
\* commit that completed or the one in flight. tLog() then constructs a new
\* TLogData and calls restorePersistentState.
Crash(n, landed) ==
    /\ hist.crashes < MaxCrashes
    /\ kv.durable.format
    /\ n \in dq.durable..Len(dq.entries)
    /\ landed => kv.committing # NoStore
    /\ LET store == IF landed THEN kv.committing ELSE kv.durable IN
       kv' = [cur |-> store, committing |-> NoStore, durable |-> store]
    /\ dq' = [dq EXCEPT !.entries = SubSeq(@, 1, n), !.durable = n]
    /\ id_data' = [g \in GenIds |-> NoGen]
    /\ tl' = [NewTLogData EXCEPT !.restore = [pc |-> "begin", pos |-> 0]]
    /\ commits' = {} /\ qcs' = {} /\ pops' = {}
    /\ us' = UsIdle
    /\ hist' = [hist EXCEPT !.crashes = @ + 1]
    /\ UNCHANGED << ft, ks, fq, sent >>

\* restorePersistentState, the TagPop keys of one generation
RECURSIVE restorePopped(_, _, _)
restorePopped(ld, keys, i) ==
    IF i > Len(TagOrder) THEN ld
    ELSE LET e == { k \in keys.popped : k.tag = TagOrder[i] } IN
         IF e = {} THEN restorePopped(ld, keys, i + 1)
         ELSE restorePopped(createTagData(ld, TagOrder[i], (CHOOSE k \in e : TRUE).popped,
                                          FALSE, FALSE, FALSE),
                            keys, i + 1)

\* restorePersistentState, the generation rebuilt from its keys
restoreLogData(g, keys) ==
    restorePopped([NewLogData(g, keys.logRouterTags, {}) EXCEPT
                      !.locality = keys.locality, !.stopped = TRUE,
                      !.knownCommittedVersion = keys.knownCommitted,
                      !.persistentDataVersion = keys.version,
                      !.persistentDataDurableVersion = keys.version,
                      !.version = keys.version, !.startPc = "restore"],
                  keys, 1)

\* the generations in the order of logsByVersion
RECURSIVE SortedByVersion(_, _)
SortedByVersion(G, ids) ==
    IF G = {} THEN <<>>
    ELSE LET g == CHOOSE x \in G : \A y \in G :
                      \/ ids[x].version < ids[y].version
                      \/ ids[x].version = ids[y].version /\ x <= y
         IN << g >> \o SortedByVersion(G \ {g}, ids)

\* restorePersistentState from its start to initializeRecovery: the generations are
\* rebuilt from persistentData and the queue is positioned at the recovery location
RestoreBegin ==
    /\ tl.restore.pc = "begin"
    /\ LET stored == { g \in GenIds : kv.cur.gens[g] # NoKeys }
           ids == [g \in GenIds |-> IF g \in stored THEN restoreLogData(g, kv.cur.gens[g])
                                    ELSE NoGen]
           minimumRecoveryLocation == IF kv.cur.recoveryLocation = invalidVersion THEN 0
                                      ELSE kv.cur.recoveryLocation
       IN /\ id_data' = ids
          /\ tl' = [tl EXCEPT !.popOrder = SortedByVersion(stored, ids),
                              !.restore = [pc |-> "replay",
                                           pos |-> Max(minimumRecoveryLocation, dq.popped)]]
    /\ UNCHANGED << ft, ks, fq, dq, kv, commits, qcs, pops, us, sent, hist >>

\* restorePersistentState, one TLogQueue::readNext and the replay of its entry
\* (TLOG_RECOVER_MEMORY_LIMIT is above what the bounded queue holds)
RestoreReadNext ==
    /\ tl.restore.pc = "replay"
    /\ tl.restore.pos < Len(dq.entries)
    /\ LET pos == tl.restore.pos
           qe == dq.entries[pos + 1]
           replay(cm) == [cm.ld EXCEPT !.version = qe.version, !.queueCommittedVersion = qe.version]
           located(ld) ==
               [ld EXCEPT !.versionLocation = { e \in @ : e.version # qe.version } \cup
                              { [version |-> qe.version, begin |-> pos, end |-> pos + 1] },
                          !.knownCommittedVersion = Max(@, qe.knownCommittedVersion)]
           entry(ld) == IF qe.version > ld.version
                        THEN replay(commitMessages(ld, qe.version, qe.messages))
                        ELSE ld
           read(ld0, ld1) ==
               /\ id_data' = [id_data EXCEPT ![qe.id] = ld1]
               /\ tl' = [tl EXCEPT
                      !.restore.pos = pos + 1,
                      !.spillOrder = IF @ = <<>> \/ @[Len(@)] # qe.id THEN Append(@, qe.id) ELSE @,
                      !.bytesInput = @ + ld1.bytesInput - ld0.bytesInput]
       IN IF Live(qe.id)
          THEN read(id_data[qe.id], entry(located(id_data[qe.id])))
          ELSE /\ tl' = [tl EXCEPT !.restore.pos = pos + 1]
               /\ UNCHANGED id_data
    /\ UNCHANGED << ft, ks, fq, dq, kv, commits, qcs, pops, us, sent, hist >>

\* restorePersistentState after end_of_stream: queueCommittedVersion is fixed up and
\* tLogCore is started for every generation
RestoreDone ==
    /\ tl.restore.pc = "replay"
    /\ tl.restore.pos >= Len(dq.entries)
    /\ id_data' = [g \in GenIds |->
          IF ~Live(g) THEN id_data[g]
          ELSE [id_data[g] EXCEPT
                  !.queueCommittedVersion = IF @ = 0 THEN id_data[g].version ELSE @,
                  !.recoveryComplete = IF @ = "unset" THEN "error" ELSE @,
                  !.startPc = "core", !.serving = TRUE]]
    /\ tl' = [tl EXCEPT !.restore = [pc |-> "off", pos |-> 0]]
    /\ UNCHANGED << ft, ks, fq, dq, kv, commits, qcs, pops, us, sent, hist >>

(***************************************************************************)
(* Specifications. Each one runs the actions its claims are about, over    *)
(* inputs small enough to explore exhaustively.                            *)
(***************************************************************************)
Request(prevVersion, m, k, x) ==
    [prevVersion |-> prevVersion, messages |-> m, knownCommittedVersion |-> k,
     minKnownCommittedVersion |-> k, hasExecOp |-> x]

\* the proxy sends the request of a version after the request of the version before
InOrder(g, req) ==
    /\ Live(g)
    /\ IF req.prevVersion = id_data[g].firstPrev THEN TRUE
       ELSE IF req.prevVersion \in DOMAIN sent[g] THEN sent[g][req.prevVersion] # NoReq
       ELSE FALSE

NewRecruit(allTags, logRouterTags) ==
    [recover |-> FALSE, startVersion |-> 1, recoverAt |-> 0, allTags |-> allTags,
     logRouterTags |-> logRouterTags, locality |-> 0, recoverTags |-> FALSE]

\* the actions of recruitment, of the queue commit and of updateStorage
StartSteps(G) ==
    \/ \E g \in G : InitPersistentState(g)
    \/ KVCommitDone
    \/ \E g \in G : TLogStartInitialized(g)
    \/ \E g \in G : TLogStartReply(g)
    \/ \E g \in G : CommitQueuePick(g)

QueueSteps ==
    \/ CommitQueueSpawn
    \/ CommitQueueBreak
    \/ \E q \in qcs : QueueCommitDone(q)

StorageSteps ==
    \/ UpdateStorageBegin
    \/ UpdateStorageSpill
    \/ SpillDurable
    \/ SpillFinish

\* the commit batch of the pop specification: T0 and txsTag share a message, T1 has its own
PopBatch == << Msg(1, <<T0, txsTag>>), Msg(2, <<T1>>) >>

\* one generation recruited for T0 and txsTag: commits, pops and spilling to
\* persistentData, then the lock, the displacement and the destruction of the generation
NextPop ==
    \/ TLogStart(1, NewRecruit({T0, txsTag}, 0))
    \/ StartSteps({1})
    \/ QueueSteps
    \/ StorageSteps
    \/ \E v \in 1..MaxVersion :
           /\ InOrder(1, Request(v - 1, PopBatch, 0, FALSE))
           /\ CommitArrive(1, v, 1, Request(v - 1, PopBatch, 0, FALSE), FALSE)
    \/ \E a \in commits : CommitReply(a)
    \/ \E to \in 2..(MaxVersion + 1) : PopArrive(1, T0, to)
    \/ PopArrive(1, T1, 1)
    \/ PopArrive(1, txsTag, 2)
    \/ \E p \in pops : PopErase(p)
    \/ TLogLock(1)
    \/ Displaced(1)
    \/ DestroyLogData(1)

SpecPop == Init /\ [][NextPop]_vars

\* the commit batch of the commit specification
CommitBatch == << Msg(1, <<T0>>) >>

\* the commit requests of the commit specification: any earlier version as prevVersion
\* (known committed by then), with and without an exec operation
CommitRequests(v) ==
    { Request(prev, CommitBatch, prev, x) : prev \in 0..(v - 1), x \in BOOLEAN }

\* one generation under concurrent, reordered and duplicate commit requests, its
\* queue commits, and its stop by a lock or by the recruitment of the next generation
\* (whose own start is left out)
NextCommit ==
    \/ TLogStart(1, NewRecruit({}, 0))
    \/ TLogStart(2, NewRecruit({}, 0))
    \/ StartSteps({1})
    \/ QueueSteps
    \/ \E v \in 1..MaxVersion, k \in 1..2, yields \in BOOLEAN :
           \E req \in CommitRequests(v) : CommitArrive(1, v, k, req, yields)
    \/ \E a \in commits : CommitProceed(a)
    \/ \E a \in commits : CommitLock1906(a)
    \/ \E a \in commits : CommitLock1937(a)
    \/ \E a \in commits : CommitReply(a)
    \/ TLogLock(1)
    \/ TLogLockReply(1)

SpecCommit == Init /\ [][NextCommit]_vars

\* the waits of tLogCommit that are ready: what enables CommitProceed, CommitLock1906
\* and CommitLock1937
CanProceed ==
    \E a \in commits : /\ a.pc = "waitVersion"
                        /\ id_data[a.gen].version >= sent[a.gen][a.version].prevVersion
                        /\ ~Backpressure(id_data[a.gen])
Has1906 == \E a \in commits : a.pc = "waitLock1906" /\ id_data[a.gen].execOpLock.holder = ActorId(a)
Has1937 == \E a \in commits : a.pc = "waitLock1937" /\ id_data[a.gen].execOpLock.holder = ActorId(a)

\* the same with the scheduling of Flow: an actor whose wait is ready is run. The
\* last three conjuncts are weak fairness of CommitProceed, CommitLock1906 and
\* CommitLock1937, with their enabling conditions written out.
SpecCommitLive ==
    /\ Init /\ [][NextCommit]_vars
    /\ WF_vars(StartSteps({1}))
    /\ WF_vars(QueueSteps)
    /\ WF_vars(\E a \in commits : CommitReply(a))
    /\ WF_vars(TLogLockReply(1))
    /\ (([]<>~CanProceed) \/ ([]<><<\E a \in commits : CommitProceed(a)>>_vars))
    /\ (([]<>~Has1906) \/ ([]<><<\E a \in commits : CommitLock1906(a)>>_vars))
    /\ (([]<>~Has1937) \/ ([]<><<\E a \in commits : CommitLock1937(a)>>_vars))

\* the recruitment of a generation that recovers the versions up to recoverAt from
\* its predecessors, pulling them through a cursor (pull) or not
Recovery(recoverAt, pull) ==
    [recover |-> TRUE, startVersion |-> 1, recoverAt |-> recoverAt, allTags |-> {T0},
     logRouterTags |-> 0, locality |-> 0, recoverTags |-> pull]

\* a generation that recovers from its predecessors and then serves commits, the
\* recruitment of its successor, and its removal
NextRecruit ==
    \/ \E at \in 0..MaxVersion, pull \in BOOLEAN : TLogStart(1, Recovery(at, pull))
    \/ TLogStart(2, NewRecruit({}, 0))
    \/ StartSteps({1, 2})
    \/ QueueSteps
    \/ \E ver \in 1..MaxVersion, msgs \in {<<>>, CommitBatch} : PullVersion(1, ver, msgs)
    \/ PullReturn(1)
    \/ \E v \in 1..(MaxVersion + 1) :
           /\ InOrder(1, Request(v - 1, CommitBatch, v - 1, FALSE))
           /\ CommitArrive(1, v, 1, Request(v - 1, CommitBatch, v - 1, FALSE), FALSE)
    \/ \E a \in commits : CommitReply(a)
    \/ Displaced(1)
    \/ TLogStartRemoved(1)
    \/ DestroyLogData(1)

SpecRecruit == Init /\ [][NextRecruit]_vars

\* every generation the process may hold is recruited in turn, commits a version, and
\* is locked, displaced, removed and destroyed in any interleaving
NextGens ==
    \/ \E g \in GenIds : TLogStart(g, NewRecruit({}, 0))
    \/ StartSteps(GenIds)
    \/ QueueSteps
    \/ \E g \in GenIds : /\ Live(g)
                          /\ CommitArrive(g, 1, 1, Request(0, CommitBatch, 0, FALSE), FALSE)
    \/ \E a \in commits : CommitReply(a)
    \/ \E g \in GenIds : TLogLock(g)
    \/ \E g \in GenIds : TLogLockReply(g)
    \/ \E g \in GenIds : Displaced(g)
    \/ \E g \in GenIds : TLogStartRemoved(g)
    \/ \E g \in GenIds : DestroyLogData(g)

SpecGens == Init /\ [][NextGens]_vars

\* the tags peeked in the peek specification
PeekTags == {T0, txsTag}

\* the subscriber takes the reply of its peek
PeekDeliver ==
    /\ hist.peek # NoReply
    /\ hist' = [hist EXCEPT !.peek = NoReply]
    /\ UNCHANGED << ft, ks, fq, id_data, tl, dq, kv, commits, qcs, pops, us, sent >>

\* one generation recruited for T0 and txsTag: commits, spilling, pops of T0, and peeks
\* without a sequence, one at a time, of T0 and txsTag (and of the log router tag
\* LR0) from any version; a reply is taken by its subscriber before the log takes
\* its next step
NextPeek ==
    \/ PeekDeliver
    \/ hist.peek = NoReply /\ TLogStart(1, NewRecruit({T0, txsTag}, 0))
    \/ hist.peek = NoReply /\ StartSteps({1})
    \/ hist.peek = NoReply /\ CommitQueueSpawn
    \/ \E q \in qcs : hist.peek = NoReply /\ QueueCommitDone(q)
    \/ hist.peek = NoReply /\ StorageSteps
    \/ \E v \in 1..MaxVersion :
           /\ hist.peek = NoReply
           /\ InOrder(1, Request(v - 1, PopBatch, 0, FALSE))
           /\ CommitArrive(1, v, 1, Request(v - 1, PopBatch, 0, FALSE), FALSE)
    \/ \E a \in commits : hist.peek = NoReply /\ CommitReply(a)
    \/ \E to \in 2..(MaxVersion + 1) : hist.peek = NoReply /\ PopArrive(1, T0, to)
    \/ \E p \in pops : hist.peek = NoReply /\ PopErase(p)
    \/ /\ hist.peek = NoReply /\ tl.peeks = {}
       /\ \E tag \in PeekTags, begin \in 0..(MaxVersion + 1), onlySpilled \in BOOLEAN :
              PeekArrive(1, 0, -1, tag, begin, onlySpilled, FALSE)
    \/ /\ hist.peek = NoReply /\ tl.peeks = {}
       /\ \E begin \in 0..(MaxVersion + 1) : PeekArrive(1, 0, -1, LR0, begin, FALSE, FALSE)
    \/ \E a \in tl.peeks : hist.peek = NoReply /\ PeekVersionReady(a)
    \/ \E a \in tl.peeks : hist.peek = NoReply /\ PeekRouterReady(a)
    \/ \E a \in tl.peeks : hist.peek = NoReply /\ PeekSpilledReady(a)
    \/ \E a \in tl.peeks, readable \in BOOLEAN : hist.peek = NoReply /\ PeekQueueRead(a, readable)

SpecPeek == Init /\ [][NextPeek]_vars

\* two generations of a shared log, one after the other, both still served: commits
\* that carry the commands that start and end the ignore-pops mode, its deadline, and
\* pops of T0 and txsTag
NextIgnore ==
    \/ \E g \in GenIds : TLogStart(g, NewRecruit({T0, txsTag}, 0))
    \/ StartSteps(GenIds)
    \/ QueueSteps
    \/ \E g \in GenIds, v \in 1..MaxVersion, cmd \in {"disable", "enable"} : ExecCommit(g, v, cmd, CommitBatch)
    \/ DeadlinePasses
    \/ \E g \in GenIds, to \in 2..(MaxVersion + 1) : PopArrive(g, T0, to)
    \/ \E g \in GenIds : PopArrive(g, txsTag, 2)
    \/ \E p \in pops : PopErase(p)
    \/ \E w \in tl.popWaiters : PopResume(w)

SpecIgnore == Init /\ [][NextIgnore]_vars

\* a commit batch whose bytes reach TLOG_HARD_LIMIT_BYTES in one version
PressureBatch == << Msg(1, <<T0>>), Msg(2, <<T0>>), Msg(3, <<T0>>), Msg(4, <<T0>>) >>

\* one generation whose first commit fills the log up to the hard limit: the next
\* commit is held back until a pop or a spill frees space or the generation is locked
\* (a pop erases the one version in memory before its first yield)
NextPressure ==
    \/ TLogStart(1, NewRecruit({T0}, 0))
    \/ StartSteps({1})
    \/ QueueSteps
    \/ StorageSteps
    \/ \E v \in 1..MaxVersion :
           /\ InOrder(1, Request(v - 1, PressureBatch, 0, FALSE))
           /\ CommitArrive(1, v, 1, Request(v - 1, PressureBatch, 0, FALSE), FALSE)
    \/ \E a \in commits : CommitProceed(a)
    \/ \E a \in commits : CommitReply(a)
    \/ \E to \in 2..(MaxVersion + 1) : PopArrive(1, T0, to)
    \/ TLogLock(1)
    \/ TLogLockReply(1)

SpecPressure == Init /\ [][NextPressure]_vars

\* the backpressure loop of the tLogCommit for version v finds its condition false
CanLeaveLoop(v) ==
    \E a \in commits : /\ a.gen = 1 /\ a.version = v /\ a.pc = "waitVersion"
                        /\ id_data[1].version >= sent[1][v].prevVersion
                        /\ ~Backpressure(id_data[1])

\* the same with the scheduling of Flow: the backpressure loop of each tLogCommit polls
\* its condition every 5 ms, so a condition that stays false is seen (weak fairness of
\* CommitProceed for each version, with its enabling condition written out)
SpecPressureLive ==
    /\ Init /\ [][NextPressure]_vars
    /\ \A v \in 1..MaxVersion :
           \/ []<>~CanLeaveLoop(v)
           \/ []<><<\E a \in commits : a.gen = 1 /\ a.version = v /\ CommitProceed(a)>>_vars

\* the tags popped at version 0: one of the generation's tags, a storage tag and a log
\* router tag the generation holds no tag data for
PopZeroTags == {T0, T1, LR0}

\* one generation recruited for T0 and txsTag that commits versions for T0, spills
\* them, and receives pops at version 0 only
NextPopZero ==
    \/ TLogStart(1, NewRecruit({T0, txsTag}, 0))
    \/ StartSteps({1})
    \/ CommitQueueSpawn
    \/ \E q \in qcs : QueueCommitDone(q)
    \/ StorageSteps
    \/ \E v \in 1..MaxVersion :
           /\ InOrder(1, Request(v - 1, CommitBatch, 0, FALSE))
           /\ CommitArrive(1, v, 1, Request(v - 1, CommitBatch, 0, FALSE), FALSE)
    \/ \E a \in commits : CommitReply(a)
    \/ \E tag \in PopZeroTags : PopArrive(1, tag, 0)

SpecPopZero == Init /\ [][NextPopZero]_vars

\* the tags of the generation of the recovery-complete specification
CompleteTags == {T0, txsTag}

\* one generation, recruited brand new or to recover the versions up to recoverAt for
\* T0 and txsTag: the pull of the recovered versions, commits, queue commits, and pops
\* of both tags to any version
NextComplete ==
    \/ TLogStart(1, NewRecruit(CompleteTags, 0))
    \/ \E at \in 0..MaxVersion, pull \in BOOLEAN :
           TLogStart(1, [Recovery(at, pull) EXCEPT !.allTags = CompleteTags])
    \/ StartSteps({1})
    \/ CommitQueueSpawn
    \/ \E q \in qcs : QueueCommitDone(q)
    \/ \E ver \in 1..MaxVersion, msgs \in {<<>>, CommitBatch} : PullVersion(1, ver, msgs)
    \/ PullReturn(1)
    \/ \E v \in 1..(MaxVersion + 1) :
           /\ InOrder(1, Request(v - 1, CommitBatch, v - 1, FALSE))
           /\ CommitArrive(1, v, 1, Request(v - 1, CommitBatch, v - 1, FALSE), FALSE)
    \/ \E a \in commits : CommitReply(a)
    \/ \E tag \in CompleteTags, to \in 1..(MaxVersion + 1) : PopArrive(1, tag, to)
    \/ \E p \in pops : PopErase(p)

SpecComplete == Init /\ [][NextComplete]_vars

\* the largest sequence number of a peek request
MaxSequence == 3

\* one generation that stores versions for T0 while one subscriber peeks T0 with
\* sequence numbers, in any order and with retries, and the trackers expire (the
\* begin of a request with a sequence above 0 is 1: the tracker replaces it)
NextTrack ==
    \/ PeekDeliver
    \/ hist.peek = NoReply /\ TLogStart(1, NewRecruit({T0, txsTag}, 0))
    \/ hist.peek = NoReply /\ StartSteps({1})
    \/ \E v \in 1..MaxVersion :
           /\ hist.peek = NoReply
           /\ InOrder(1, Request(v - 1, CommitBatch, 0, FALSE))
           /\ CommitArrive(1, v, 1, Request(v - 1, CommitBatch, 0, FALSE), FALSE)
    \/ \E begin \in 1..(MaxVersion + 1) :
           hist.peek = NoReply /\ PeekArrive(1, 1, 0, T0, begin, FALSE, FALSE)
    \/ \E seq \in 1..MaxSequence :
           hist.peek = NoReply /\ PeekArrive(1, 1, seq, T0, 1, FALSE, FALSE)
    \/ \E a \in tl.peeks : hist.peek = NoReply /\ PeekSequenceReady(a)
    \/ \E a \in tl.peeks : hist.peek = NoReply /\ PeekVersionReady(a)
    \/ hist.peek = NoReply /\ TrackersAge
    \/ hist.peek = NoReply /\ cleanupPeekTrackers

SpecTrack == Init /\ [][NextTrack]_vars

\* the tracker specification with its scheduling: time passes, cleanupPeekTrackers runs
\* again after its delay, an actor whose future is ready or failed resumes, and a reply
\* that was sent is taken
SpecTrackLive ==
    /\ Init /\ [][NextTrack]_vars
    /\ WF_vars(PeekDeliver)
    /\ WF_vars(hist.peek = NoReply /\ TrackersAge)
    /\ WF_vars(hist.peek = NoReply /\ cleanupPeekTrackers)
    /\ WF_vars(\E a \in tl.peeks : hist.peek = NoReply /\ PeekSequenceReady(a))

\* restorePersistentState is not running: tLog() serves recruitments and the shared actors run
Running == tl.restore.pc = "off"

\* the commit batches of the recovery specification: for the tag that is popped, or
\* for a storage tag and the txs tag, which are never popped
RecoverBatches == { << Msg(1, <<T1>>) >>, << Msg(1, <<T0, txsTag>>) >> }

\* one generation that commits and spills, the crash of the process at any point
\* and restorePersistentState on what survived; the restored generation is spilled on
NextRecover ==
    \/ Running /\ TLogStart(1, NewRecruit({}, 0))
    \/ Running /\ StartSteps({1})
    \/ Running /\ QueueSteps
    \/ Running /\ StorageSteps
    \/ \E v \in 1..MaxVersion, m \in RecoverBatches :
           /\ Running /\ InOrder(1, Request(v - 1, m, 0, FALSE))
           /\ CommitArrive(1, v, 1, Request(v - 1, m, 0, FALSE), FALSE)
    \/ \E a \in commits : CommitReply(a)
    \/ Running /\ PopArrive(1, T1, MaxVersion + 1)
    \/ \E p \in pops : PopErase(p)
    \/ Running /\ TLogLock(1)
    \/ \E n \in 0..MaxVersion, landed \in BOOLEAN : Crash(n, landed)
    \/ RestoreBegin
    \/ RestoreReadNext
    \/ RestoreDone

SpecRecover == Init /\ [][NextRecover]_vars

HasTag(g, t) == Live(g) /\ id_data[g].tag_data[t] # NoTagData

(***************************************************************************)
(* C3: the versions pushed to the disk queue for a generation are strictly *)
(* increasing, so no version is pushed twice. The wait for the exec lock   *)
(* between the duplicate test and version.set breaks it.                   *)
(***************************************************************************)
C3_PushedStrictlyIncreasing ==
    \A g \in GenIds :
        \A i \in 1..(Len(hist.pushed[g]) - 1) : hist.pushed[g][i] < hist.pushed[g][i + 1]

\* the replies to the replays of a request and to the request that was not a replay
ReplayReplies == { r \in hist.replies : r.replay }
OriginalReplies == { r \in hist.replies : ~r.replay }

(***************************************************************************)
(* C8 as stated: a replayed commit request (version at most the            *)
(* generation's version on arrival) that is answered with a version gets   *)
(* the version the original request was answered with, and adds no data.   *)
(***************************************************************************)
C8_ReplaySameReply ==
    /\ \A a \in commits : a.replay => ~a.pushed
    /\ \A r \in ReplayReplies :
           /\ ~r.pushed
           /\ \A o \in OriginalReplies :
                  (o.gen = r.gen /\ o.version = r.version
                     /\ ~o.tlog_stopped /\ ~r.tlog_stopped) => o.result = r.result

(***************************************************************************)
(* C8 amended: a replayed commit request never appends messages, pushes a  *)
(* queue entry or advances the version, and its reply is tlog_stopped or   *)
(* the generation's durable known committed version at the time of the     *)
(* reply, which never exceeds the generation's later values.               *)
(***************************************************************************)
C8_ReplayAddsNoData ==
    /\ [](\A a \in commits : a.replay => ~a.pushed)
    /\ [](\A r \in ReplayReplies :
             /\ ~r.pushed
             /\ Live(r.gen) => r.result <= id_data[r.gen].durableKnownCommittedVersion)
    /\ [][\A r \in hist.replies' \ hist.replies :
             (r.replay /\ ~r.tlog_stopped) =>
                 /\ r.result = id_data[r.gen].durableKnownCommittedVersion
                 /\ id_data'[r.gen].version = id_data[r.gen].version
                 /\ id_data'[r.gen].version_sizes = id_data[r.gen].version_sizes
                 /\ id_data'[r.gen].tag_data = id_data[r.gen].tag_data
                 /\ UNCHANGED << tl, dq >>]_vars

\* a replay was answered with a larger version than the original request
C8_Witness ==
    \E r \in ReplayReplies, o \in OriginalReplies :
        /\ o.gen = r.gen /\ o.version = r.version
        /\ ~o.tlog_stopped /\ ~r.tlog_stopped
        /\ o.pushed /\ r.result > o.result

\* the message sub of version v is held for tag t: in the memory of generation g, or
\* spilled under a persisted version that covers v, by value or by a reference to a
\* disk queue entry that is still there and is the entry that was pushed for v
Held(g, v, sub, t) ==
    LET ld == id_data[g]
        keys == kv.cur.gens[g]
        inMemory == IF ld.tag_data[t] = NoTagData THEN FALSE
                    ELSE \E i \in 1..Len(ld.tag_data[t].versionMessages) :
                             ld.tag_data[t].versionMessages[i] = [version |-> v, sub |-> sub]
        byValue == \E k \in keys.msgs :
                       k.tag = t /\ k.version = v /\ \E i \in 1..Len(k.subs) : k.subs[i] = sub
        byReference ==
            \E r \in keys.refs : r.tag = t /\ \E i \in 1..Len(r.items) :
                LET item == r.items[i] IN
                /\ item.version = v
                /\ item.begin >= dq.popped /\ item.begin < Len(dq.entries)
                /\ dq.entries[item.begin + 1].id = g
                /\ dq.entries[item.begin + 1].version = v
                /\ dq.entries[item.begin + 1].messages = sent[g][v].messages
    IN \/ inMemory
       \/ keys # NoKeys /\ v <= keys.version /\ (IF t = txsTag THEN byValue ELSE byReference)

\* the commit replies that acknowledged a version
Acknowledged == { r \in hist.replies : r.pushed /\ ~r.tlog_stopped }

C11_LockAfterQueueCommit ==
    /\ [](\A r \in hist.locks :
             /\ r.queueCommittedVersion >= r.end /\ r.durable
             /\ r.end = r.version /\ r.stopped)
    /\ [][\A g \in GenIds :
             (Live(g) /\ id_data[g].lock.pc # "none") =>
                 /\ \A a \in commits' \ commits :
                        a.gen = g => \E b \in commits : ActorId(b) = ActorId(a)
                 /\ \A r \in hist.replies' \ hist.replies :
                        (r.gen = g /\ \A b \in commits : ActorId(b) # << r.gen, r.version, r.k >>)
                            => r.tlog_stopped]_vars

\* a lock waited for the queue commit of a version and was answered, and a commit
\* request that arrived afterwards was rejected
C11_Witness ==
    /\ \E r \in hist.locks : r.waited /\ r.end >= 1
    /\ \E r \in hist.replies :
           /\ r.tlog_stopped /\ ~r.pushed /\ id_data[r.gen].lock.pc = "done"
           /\ r.version > id_data[r.gen].lock.stopVersion

\* the tLogCommit of request k for version v is suspended in a stopped generation,
\* and every request for an earlier version has reached the server
SuspendedWhileStopped(g, v, k) ==
    /\ Live(g) /\ id_data[g].stopped
    /\ \E a \in commits : ActorId(a) = << g, v, k >>
    /\ \A u \in 1..(v - 1) : sent[g][u] # NoReq

Answered(g, v, k) == \E r \in hist.replies : << r.gen, r.version, r.k >> = << g, v, k >>

(***************************************************************************)
(* C12: a commit request whose tLogCommit is suspended while its           *)
(* generation is stopped is eventually answered (tlog_stopped or the       *)
(* version). The wait for prevVersion and the exec lock break it.          *)
(***************************************************************************)
C12_StoppedCommitsAnswered ==
    \A v \in 1..MaxVersion, k \in 1..2 :
        SuspendedWhileStopped(1, v, k) ~> Answered(1, v, k)

\* commitQueue's foundCount: the generations of id_data that are not stopped
foundCount == Cardinality({ g \in GenIds : InIdData(g) /\ ~id_data[g].stopped })

(***************************************************************************)
(* C13: at every moment at most one generation of id_data is not stopped,  *)
(* so the assertion foundCount < 2 of commitQueue holds whenever it runs.  *)
(***************************************************************************)
C13_OneLiveGeneration == foundCount < 2

\* a generation that committed a version was stopped by the recruitment of its
\* successor, which commitQueue picked
C13_Witness ==
    /\ InIdData(1) /\ InIdData(2)
    /\ id_data[1].stopped /\ id_data[1].stopCommit > 0 /\ id_data[1].lock.pc = "none"
    /\ id_data[1].version = 1
    /\ ~id_data[2].stopped /\ tl.cqGen = 2

(***************************************************************************)
(* C4: in every state of every generation, persistent data durable version *)
(* <= persistent data version <= queue committed version <= version.       *)
(* restorePersistentState breaks it while it replays the queue.            *)
(***************************************************************************)
C4_VersionsOrdered ==
    \A g \in GenIds :
        Live(g) =>
            /\ id_data[g].persistentDataDurableVersion <= id_data[g].persistentDataVersion
            /\ id_data[g].persistentDataVersion <= id_data[g].queueCommittedVersion
            /\ id_data[g].queueCommittedVersion <= id_data[g].version

(***************************************************************************)
(* C10: in every state of every generation, durable known committed        *)
(* version <= known committed version <= version. tLogStart breaks it when *)
(* the generation is stopped while it pulls the recovered versions.        *)
(***************************************************************************)
C10_KnownCommittedOrdered ==
    \A g \in GenIds :
        Live(g) =>
            /\ id_data[g].durableKnownCommittedVersion <= id_data[g].knownCommittedVersion
            /\ id_data[g].knownCommittedVersion <= id_data[g].version

(***************************************************************************)
(* C5: the popped version of a tag is never larger than the largest        *)
(* version the server was asked to pop the tag to (and so equals the       *)
(* maximum of the accepted pops). createTagData breaks it.                 *)
(***************************************************************************)
C5_PoppedAtMostAsked ==
    \A g \in GenIds, t \in Tags :
        HasTag(g, t) => id_data[g].tag_data[t].popped <= hist.popAsked[g][t]

(***************************************************************************)
(* C6: between any two steps, every message a tag holds in memory has a    *)
(* version at or above the tag's popped version. The yield inside          *)
(* eraseMessagesBefore breaks it.                                          *)
(***************************************************************************)
C6_MemoryAtOrAbovePopped ==
    \A g \in GenIds, t \in Tags :
        HasTag(g, t) =>
            \A i \in 1..Len(id_data[g].tag_data[t].versionMessages) :
                id_data[g].tag_data[t].versionMessages[i].version >= id_data[g].tag_data[t].popped

CarriesTag(msg, tag, logRouters) ==
    \E i \in 1..Len(msg.tags) :
        \/ msg.tags[i] = tag
        \/ /\ tag.locality = tagLocalityLogRouter /\ msg.tags[i].locality = tagLocalityLogRouter
           /\ logRouters > 0 /\ msg.tags[i].id % logRouters = tag.id

\* the committed messages of generation g that carry the tag, with version in [lo, hi),
\* in commit order
RECURSIVE Committed(_, _, _, _)
Committed(g, tag, lo, hi) ==
    IF lo >= hi THEN <<>>
    ELSE LET msgs == IF lo \in DOMAIN sent[g] /\ lo <= id_data[g].version
                     THEN IF sent[g][lo] = NoReq THEN <<>>
                          ELSE SelectSeq(sent[g][lo].messages,
                                         LAMBDA m : CarriesTag(m, tag, id_data[g].logRouterTags))
                     ELSE <<>>
         IN [i \in 1..Len(msgs) |-> [version |-> lo, sub |-> msgs[i].sub]]
            \o Committed(g, tag, lo + 1, hi)

C2_WitnessTxs ==
    /\ hist.peek # NoReply /\ hist.peek.error = "" /\ hist.peek.tag = txsTag
    /\ hist.peek.onlySpilled /\ Len(Decode(hist.peek.messages)) >= 1


(***************************************************************************)
(* C19 as stated: a peek whose begin is below popped(tag) returns no       *)
(* message bytes, popped = popped(tag) and end = version + 1 (scenario S2: *)
(* after commits and a pop up to the last version, end is the version      *)
(* after the last one).                                                    *)
(***************************************************************************)
C19_PoppedPeekEndsAfterVersion ==
    (hist.peek # NoReply /\ hist.peek.error = "" /\ hist.peek.poppedVer > hist.peek.begin) =>
        /\ hist.peek.messages = <<>>
        /\ hist.peek.popped = hist.peek.poppedVer
        /\ hist.peek.end = id_data[hist.peek.gen].version + 1

(***************************************************************************)
(* C19 amended: a peek whose begin is below popped(tag) returns no message *)
(* bytes, popped = popped(tag) and end = popped(tag), not version + 1.     *)
(***************************************************************************)
C19_PoppedPeekEndsAtPopped ==
    (hist.peek # NoReply /\ hist.peek.error = "" /\ hist.peek.poppedVer > hist.peek.begin) =>
        /\ hist.peek.messages = <<>>
        /\ hist.peek.popped = hist.peek.poppedVer
        /\ hist.peek.end = hist.peek.poppedVer
        /\ ~hist.peek.onlySpilled

\* scenario S2: versions 1 and 2 are committed for T0, T0 is popped up to 2 and a peek
\* from 1 is answered with end = popped = 2 while the version after the last one is 3
C19_Witness ==
    /\ hist.peek # NoReply /\ hist.peek.error = "" /\ hist.peek.tag = T0
    /\ hist.peek.begin = 1 /\ hist.peek.poppedVer = 2 /\ hist.peek.end = 2
    /\ id_data[1].version = 2
    /\ hist.popAsked[1][T0] = 2

(***************************************************************************)
(* C20 as stated: a peek with begin = popped(tag) returns no data and      *)
(* end = popped(tag), whatever the tag holds at versions >= popped(tag).   *)
(***************************************************************************)
C20_PeekAtPoppedIsEmpty ==
    (hist.peek # NoReply /\ hist.peek.error = "" /\ hist.peek.poppedVer = hist.peek.begin) =>
        /\ hist.peek.messages = <<>>
        /\ hist.peek.end = hist.peek.poppedVer

(***************************************************************************)
(* C20 amended: a peek with begin = popped(tag) is served like a peek      *)
(* above popped(tag): the reply sets no popped, and (for a request without *)
(* only_spilled) end is above begin and the reply carries the committed    *)
(* messages of the tag with version in [begin, end).                       *)
(***************************************************************************)
C20_PeekAtPoppedIsServed ==
    (hist.peek # NoReply /\ hist.peek.error = "" /\ hist.peek.poppedVer = hist.peek.begin) =>
        /\ ~hist.peek.early /\ hist.peek.popped = 0
        /\ ~hist.peek.reqOnlySpilled =>
               /\ hist.peek.end > hist.peek.begin
               /\ Decode(hist.peek.messages)
                      = Committed(hist.peek.gen, hist.peek.tag, hist.peek.begin, hist.peek.end)

\* T0 is popped up to 2 and a peek from 2 returns the message of version 2
C20_Witness ==
    /\ hist.peek # NoReply /\ hist.peek.error = "" /\ hist.peek.tag = T0
    /\ hist.peek.begin = 2 /\ hist.peek.poppedVer = 2
    /\ hist.peek.end = 3
    /\ Decode(hist.peek.messages) = << [version |-> 2, sub |-> 1] >>


\* the ends that peeks with the sequence before seq recorded for the subscriber
RecordedFor(peekId, seq) == { e.ver : e \in { x \in hist.recorded : x.peekId = peekId /\ x.seq = seq } }

(***************************************************************************)
(* C14: a peek with sequence n > 0 does not start serving until a peek     *)
(* with sequence n - 1 has recorded its end in the tracker, and it serves  *)
(* from exactly a recorded end, whatever begin it asked for and whichever  *)
(* request arrived first; a peek with sequence 0 never waits on the        *)
(* tracker.                                                                *)
(***************************************************************************)
C14_SequenceOrder ==
    /\ \A a \in tl.peeks :
           /\ (a.pc = "waitSeq") => (a.peekId # 0 /\ a.seq > 0)
           /\ (a.peekId # 0 /\ a.seq > 0 /\ (a.pc # "waitSeq" \/ a.fut = "ready")) =>
                  (IF a.pc = "waitSeq" THEN a.futVer ELSE a.begin) \in RecordedFor(a.peekId, a.seq)
    /\ (hist.peek # NoReply /\ hist.peek.peekId # 0 /\ hist.peek.seq > 0
            /\ hist.peek.error \in {"", "end_of_stream"}) =>
           hist.peek.begin \in RecordedFor(hist.peek.peekId, hist.peek.seq)
    /\ (hist.peek # NoReply /\ hist.peek.peekId # 0 /\ hist.peek.seq = 0
            /\ hist.peek.error \in {"", "end_of_stream"}) =>
           hist.peek.begin = hist.peek.reqBegin

\* the request with sequence 1 arrived first and asked for begin 1; it was served
\* after the request with sequence 0, from the end 2 that request recorded
C14_Witness ==
    /\ hist.peek # NoReply /\ hist.peek.error = "" /\ hist.peek.seq = 1
    /\ hist.peek.n = 1 /\ hist.peek.reqBegin = 1 /\ hist.peek.begin = 2
    /\ hist.peek.end = 3
    /\ RecordedFor(1, 1) = {2}

(***************************************************************************)
(* C15: when a peek with sequence n finishes and the tracker entry of      *)
(* n + 1 is already set, the reply succeeds only if the recorded end       *)
(* equals the end just computed, otherwise the request fails with          *)
(* timed_out; and an entry that is set keeps its end as long as it is in   *)
(* the tracker (a retry never overwrites it).                              *)
(***************************************************************************)
C15_RetryKeepsEnd ==
    /\ [](\A p \in PeekIds :
             (hist.peek # NoReply /\ hist.peek.peekId = p /\ tl.peekTracker[p] # NoTracker) =>
                 LET e == EntryOf(tl.peekTracker[p], hist.peek.seq + 1) IN
                 /\ hist.peek.error = "" => (e.isSet /\ e.ver = hist.peek.end)
                 /\ (hist.peek.error = "timed_out" /\ hist.peek.end > 0) =>
                        \/ e.isSet /\ e.ver # hist.peek.end
                        \/ hist.peek.seq + 1 < FirstSeq(tl.peekTracker[p]))
    /\ [][\A p \in PeekIds :
             (tl.peekTracker[p] # NoTracker /\ tl'.peekTracker[p] # NoTracker) =>
                 \A e \in tl.peekTracker[p].seqs :
                     e.isSet => \A f \in tl'.peekTracker[p].seqs : f.seq = e.seq => f = e]_vars

\* the retry of sequence 0 computed end 3 after end 2 had been recorded: it was
\* answered timed_out and the entry still holds 2
C15_Witness ==
    /\ hist.peek # NoReply /\ hist.peek.peekId = 1 /\ hist.peek.seq = 0
    /\ hist.peek.error = "timed_out" /\ hist.peek.end = 3
    /\ tl.peekTracker[1] # NoTracker
    /\ EntryOf(tl.peekTracker[1], 1) = [seq |-> 1, isSet |-> TRUE, ver |-> 2]


\* request n waits for the entry of its sequence, which no peek has set
WaitsForSequence(n) == \E a \in tl.peeks : a.n = n /\ a.pc = "waitSeq" /\ a.fut = "pending"
\* request n was answered timed_out, or the end it waited for was recorded
SequenceSettled(n) ==
    \/ hist.peek # NoReply /\ hist.peek.n = n /\ hist.peek.error = "timed_out"
    \/ \E a \in tl.peeks : a.n = n /\ a.fut = "ready"

(***************************************************************************)
(* C16: a tracker that was not updated for PEEK_TRACKER_EXPIRATION_TIME is *)
(* removed by cleanupPeekTrackers (unless a request updates it first); in  *)
(* the step that removes it every actor still waiting on one of its        *)
(* sequences is failed; and a peek that waits for the end of its           *)
(* predecessor is eventually answered timed_out unless that end gets       *)
(* recorded: it never waits forever.                                       *)
(***************************************************************************)
C16_ExpiryFailsWaiters ==
    /\ \A p \in PeekIds :
           (tl.peekTracker[p] # NoTracker /\ ~tl.peekTracker[p].fresh)
               ~> (tl.peekTracker[p] = NoTracker \/ tl.peekTracker[p].fresh)
    /\ [][\A p \in PeekIds :
             (tl.peekTracker[p] # NoTracker /\ tl'.peekTracker[p] = NoTracker) =>
                 \A a \in tl.peeks :
                     (a.peekId = p /\ a.pc = "waitSeq" /\ a.fut = "pending") =>
                         \E b \in tl'.peeks : b.n = a.n /\ b.pc = "waitSeq" /\ b.fut = "error"]_vars
    /\ \A n \in 1..MaxPeeks : WaitsForSequence(n) ~> SequenceSettled(n)

\* the only request that ever arrived had sequence 1: its tracker expired and it was
\* answered timed_out
C16_Witness ==
    /\ hist.peek # NoReply /\ hist.peek.error = "timed_out" /\ hist.peek.seq = 1
    /\ hist.peekCount = 1
    /\ tl.peekTracker[1] = NoTracker


(***************************************************************************)
(* C17: in ignore-pops mode a pop request is deferred into toBePopped,     *)
(* which keeps the largest version of each tag, and changes no popped      *)
(* value and erases no message; once the deferred pops were replayed (by   *)
(* the first pop request after the deadline, or by enable_tlog_pop) the    *)
(* mode is off, toBePopped is empty and popped of every deferred tag, in   *)
(* the generation the pop was sent to, is at least the deferred version.   *)
(***************************************************************************)
C17_DeferredPopsReplayed ==
    /\ [](~tl.ignorePopRequest =>
             /\ tl.toBePopped = {}
             /\ \A d \in hist.deferred :
                    InIdData(d.gen) => poppedVersion(id_data[d.gen], d.tag) >= d.to)
    /\ [][(tl.ignorePopRequest /\ tl'.ignorePopRequest /\ hist'.popAsked # hist.popAsked) =>
             /\ id_data' = id_data /\ pops' = pops
             /\ hist'.deferred # hist.deferred]_vars
    /\ [][(tl.ignorePopRequest /\ hist'.deferred # hist.deferred) =>
             /\ id_data' = id_data /\ pops' = pops
             /\ \A d \in hist'.deferred \ hist.deferred :
                    \E e \in tl'.toBePopped : e.tag = d.tag /\ e.to >= d.to
             /\ \A e \in tl.toBePopped :
                    \E f \in tl'.toBePopped : f.tag = e.tag /\ f.to >= e.to]_vars

\* C17 for the pops deferred while the log holds the one generation they were sent to
C17_ReplayedInOneGeneration ==
    (~tl.ignorePopRequest /\ \A g \in GenIds : g # 1 => id_data[g] = NoGen) =>
        /\ tl.toBePopped = {}
        /\ \A d \in hist.deferred :
               InIdData(d.gen) => poppedVersion(id_data[d.gen], d.tag) >= d.to


\* the tags of a generation whose unpoppedRecovered flag is set
UnpoppedRecovered(ld) ==
    { t \in Tags : ld.tag_data[t] # NoTagData /\ ld.tag_data[t].unpoppedRecovered }

\* recoveryComplete of generation g is sent (not as an error) in this step
SignalsRecoveryComplete(g) ==
    /\ Live(g) /\ id_data[g].recoveryComplete = "unset"
    /\ Live(g)' /\ id_data'[g].recoveryComplete = "set"

\* the state of generation g allows the signal
MayComplete(ld) ==
    UnpoppedRecovered(ld) = {} /\ ld.durableKnownCommittedVersion >= ld.recoveredAt

\* this step of generation g is a pop that clears the flag of t, or a queue commit
ClearsFlag(g, t) ==
    /\ Live(g) /\ Live(g)'
    /\ t \in UnpoppedRecovered(id_data[g]) /\ t \notin UnpoppedRecovered(id_data'[g])

QueueCommits(g) ==
    /\ Live(g) /\ Live(g)'
    /\ id_data'[g].queueCommittedVersion # id_data[g].queueCommittedVersion

\* the three parts of C18 for the generations in G
RecoveryCompleteRule(G) ==
    \A g \in G :
        /\ SignalsRecoveryComplete(g) => MayComplete(id_data'[g])
        /\ \A t \in Tags :
               ClearsFlag(g, t) => id_data'[g].tag_data[t].popped > id_data[g].recoveredAt
        /\ ((QueueCommits(g) \/ \E t \in Tags : ClearsFlag(g, t)) /\ MayComplete(id_data'[g]))
               => id_data'[g].recoveryComplete # "unset"

(***************************************************************************)
(* C18 as stated: recoveryComplete is sent for a generation only into a    *)
(* state where no tag is flagged unpoppedRecovered and                     *)
(* durableKnownCommittedVersion >= recoveredAt; a pop clears a flag only   *)
(* if it pops above recoveredAt; and the signal is sent by the pop that    *)
(* clears the last flag, or by the queue commit, after which both hold.    *)
(***************************************************************************)
C18_SignalledWhenRecovered == [][RecoveryCompleteRule(GenIds)]_vars

(***************************************************************************)
(* C18, amended: the rule holds for the generations recruited to recover   *)
(* from a predecessor; a brand-new generation is sent recoveryComplete by  *)
(* tLogStart when its initialization is done, whatever its flags and       *)
(* versions are, and by no other step.                                     *)
(***************************************************************************)
C18_SignalledWhenRecoveredOrNew ==
    [][/\ RecoveryCompleteRule({ g \in GenIds : Live(g) /\ id_data[g].req.recover })
       /\ \A g \in GenIds :
              (SignalsRecoveryComplete(g) /\ ~id_data[g].req.recover) =>
                  id_data[g].startPc = "initCommit" /\ id_data'[g].initialized]_vars

\* a recovered generation whose two flags were cleared by pops and that was signalled
C18_Witness ==
    /\ Live(1) /\ id_data[1].req.recover
    /\ id_data[1].recoveredAt >= 1
    /\ id_data[1].recoveryComplete = "set"
    /\ UnpoppedRecovered(id_data[1]) = {}
    /\ \A t \in CompleteTags : id_data[1].tag_data[t].popped > id_data[1].recoveredAt


\* the reply in hand answers a peek of a tag that has no tag data in its generation,
\* with a begin that the generation has reached
PeekOfUnwrittenTag ==
    /\ hist.peek # NoReply /\ hist.peek.error = ""
    /\ Live(hist.peek.gen)
    /\ id_data[hist.peek.gen].tag_data[hist.peek.tag] = NoTagData
    /\ hist.peek.reqBegin <= id_data[hist.peek.gen].version

(***************************************************************************)
(* C21 as stated: a peek of a tag that has no tag data in the generation   *)
(* returns no message and end = version of the generation, for every       *)
(* begin <= version.                                                       *)
(***************************************************************************)
C21_UnwrittenPeekEndsAtVersion ==
    PeekOfUnwrittenTag =>
        /\ Decode(hist.peek.messages) = <<>>
        /\ hist.peek.end = id_data[hist.peek.gen].version

(***************************************************************************)
(* C21 amended: a peek (without onlySpilled) of a tag that has no tag data *)
(* returns no message; popped(tag) is then recoveredAt, and a begin below  *)
(* it is answered with end = popped = recoveredAt; any other begin is      *)
(* answered with an end above begin that is the version after the last one *)
(* the generation held when the peek was served: version + 1 when the      *)
(* reply is sent at once (begin above persistentDataDurableVersion), and   *)
(* at most version + 1 when it follows the reads of spilled data.          *)
(***************************************************************************)
C21_UnwrittenPeekEndsAfterVersion ==
    PeekOfUnwrittenTag =>
        LET ld == id_data[hist.peek.gen] IN
        /\ Decode(hist.peek.messages) = <<>>
        /\ hist.peek.poppedVer = ld.recoveredAt
        /\ IF hist.peek.poppedVer > hist.peek.reqBegin
           THEN hist.peek.end = ld.recoveredAt /\ hist.peek.popped = ld.recoveredAt
           ELSE /\ hist.peek.end > hist.peek.reqBegin
                /\ hist.peek.end <= ld.version + 1
                /\ hist.peek.reqBegin > ld.persistentDataDurableVersion
                       => hist.peek.end = ld.version + 1

\* versions 1 and 2 are committed for other tags and a peek of LR0 from 1 is answered
\* with no message and end 3
C21_Witness ==
    /\ PeekOfUnwrittenTag /\ hist.peek.tag = LR0
    /\ hist.peek.reqBegin = 1 /\ id_data[hist.peek.gen].version = 2
    /\ hist.peek.end = 3 /\ hist.peek.messages = <<>>


\* the keys of the popped versions that the KV index holds, now or in the commit in flight
PoppedKeys(store, g) ==
    IF store = NoStore THEN {}
    ELSE IF store.gens[g] = NoKeys THEN {} ELSE store.gens[g].popped

(***************************************************************************)
(* C22: a pop request at version 0 is a no-op. The step of the request     *)
(* leaves the generation as it is (no tag data is created, no field of a   *)
(* tag changes, no message is erased) and writes nothing; and when every   *)
(* pop is at version 0 no later spill writes a popped key other than the   *)
(* ones initPersistentState wrote for the generation's tags, with value 0. *)
(***************************************************************************)
C22_PopAtZeroIsNoOp ==
    /\ [][(\E tag \in Tags : PopArrive(1, tag, 0)) =>
              UNCHANGED << id_data, tl, dq, kv, pops >>]_vars
    /\ [](\A g \in GenIds : Live(g) =>
              \A e \in PoppedKeys(kv.cur, g) \cup PoppedKeys(kv.committing, g) :
                  e.tag \in id_data[g].allTags /\ e.popped = 0)


\* the tLogCommit of the request for version v of generation g is in the backpressure
\* loop: the version before is stored and nothing else holds it back
InBackpressureLoop(g, v) ==
    /\ Live(g)
    /\ \E a \in commits : /\ a.gen = g /\ a.version = v /\ a.pc = "waitVersion"
                           /\ id_data[g].version >= sent[g][v].prevVersion

\* the loop's condition is false: space was freed, or the generation is stopped
SpaceFreed(g) ==
    \/ tl.bytesInput - tl.bytesDurable < TLOG_HARD_LIMIT_BYTES
    \/ id_data[g].stopped

(***************************************************************************)
(* C23: a tLogCommit held in the backpressure loop (bytesInput -           *)
(* bytesDurable >= TLOG_HARD_LIMIT_BYTES) leaves it once a pop or a spill  *)
(* has raised bytesDurable so that the difference is below the limit, or   *)
(* once the generation is stopped: under fair scheduling it does not stay  *)
(* in the loop while the loop's condition is false.                        *)
(***************************************************************************)
C23_BackpressureReleased ==
    \A v \in 1..MaxVersion :
        (InBackpressureLoop(1, v) /\ SpaceFreed(1))
            ~> (~InBackpressureLoop(1, v) \/ ~SpaceFreed(1))

\* the commit of version 2 is in the loop, held back by the bytes of version 1, and a
\* pop or a spill has just brought the difference below the limit
C23_Witness ==
    /\ InBackpressureLoop(1, 2) /\ ~id_data[1].stopped
    /\ tl.bytesInput >= TLOG_HARD_LIMIT_BYTES
    /\ tl.bytesDurable > 0
    /\ tl.bytesInput - tl.bytesDurable < TLOG_HARD_LIMIT_BYTES

\* the same commit leaves the loop because the generation was locked
C23_WitnessStopped ==
    /\ InBackpressureLoop(1, 2) /\ id_data[1].stopped
    /\ tl.bytesInput - tl.bytesDurable >= TLOG_HARD_LIMIT_BYTES


\* ---------------------------------------------------------------------------
\* FlowTransport: sending, the connection keeper, the reader and deliver.

MaxConns == 3
MaxPackets == 3
otherVars == << fq, id_data, tl, dq, kv, commits, qcs, pops, us, sent, hist, ks >>

Bound(f, p) == f.address[p] # NoAddress
\* FlowTransport::bind: a process built at protocol version v takes its public address
Bind(p, a, v) ==
    /\ ~Bound(ft, p)
    /\ \A q \in Procs : ft.address[q] # a
    /\ a.ip.v6 => hasIPv6(v)
    /\ ft' = [ft EXCEPT !.address[p] = a, !.version[p] = v]
    /\ UNCHANGED otherVars

\* the connections whose end at process p is open
OpenAt(f, p) == { c \in 1..Len(f.conns) : f.conns[c].open[p] }
\* conn->close() at process p: the end is shut, its reader is gone, what had
\* not been read is lost
CloseEnd(f, p, c) ==
    [f EXCEPT !.conns[c].open[p] = FALSE, !.conns[c].wire[p] = <<>>,
              !.conns[c].reader[p].pc = "done"]

\* ReliablePacketList::compact: the packets still on the list, in its order
compact(reliable) == reliable
\* nothing is thrown away
discardNothing(peer) == peer
\* Peer::discardUnreliablePackets
discardUnreliablePackets(peer) ==
    [peer EXCEPT !.unsent = IF peer.reliable # <<>> THEN compact(peer.reliable) ELSE <<>>]
\* Peer::prependConnectPacket
prependConnectPacket(f, p) ==
    [f EXCEPT !.peer[p].unsent = << ConnectPacket(f.version[p], f.address[p], p) >> \o @]

\* connectionKeeper's catch block: what is left of the Peer once the error was
\* handled. A cancelled keeper rethrows; otherwise an unreferenced Peer with
\* nothing to send is destroyed (getPeer makes a new one on demand), and any
\* other goes round the loop to wait, idle, for something to send.
KeeperCatch(f, p, cancelled) ==
    LET c == f.peer[p].connect.conn
        f1 == [f EXCEPT !.peer[p] = discardUnreliablePackets(@), !.failures[p] = @ + 1]
        f2 == IF c # NoConn THEN CloseEnd(f1, p, c) ELSE f1
    IN IF cancelled THEN [f2 EXCEPT !.peer[p].connect = [pc |-> "cancelled", conn |-> NoConn]]
       ELSE IF f2.peer[p].reliable = <<>> /\ f2.peer[p].unsent = <<>>
       THEN [f2 EXCEPT !.peer[p] = NewPeer]
       ELSE [f2 EXCEPT !.peer[p].connect = KeeperIdle, !.peer[p].outgoingConnectionIdle = TRUE]

\* deliver() is started for a packet: it runs once the scheduler reaches it
StartDeliver(f, p, from, pkt) ==
    [f EXCEPT !.delivering[p] = @ \cup { [from |-> from, packet |-> pkt] }]

\* sendPacket: a packet for the local address is delivered in place; any other
\* is queued on the Peer unless the peer's version is newer and incompatible
sendPacket(f, p, dest, pkt) ==
    IF dest = p
    THEN StartDeliver(f, p, p, pkt)
    ELSE IF \/ (f.peer[p].outgoingConnectionIdle /\ ~isPublic(f.address[dest]))
            \/ (f.peer[p].incompatibleProtocolVersionNewer /\ pkt.token # WLTOKEN_PING_PACKET)
    THEN f
    ELSE [f EXCEPT !.peer[p].unsent = Append(@, pkt),
                   !.peer[p].reliable = IF pkt.reliable THEN Append(@, pkt) ELSE @,
                   !.queued = @ \cup { [id |-> pkt.id, by |-> p, reliable |-> pkt.reliable,
                                         failures |-> f.failures[p]] }]

\* FlowTransport::sendReliable / sendUnreliable
Send(p, dest, token, reliable) ==
    /\ Bound(ft, p) /\ Bound(ft, dest)
    /\ ft.packets < MaxPackets
    /\ LET pkt == DataPacket(ft.packets + 1, token, reliable, "message")
       IN ft' = sendPacket([ft EXCEPT !.packets = @ + 1], p, dest, pkt)
    /\ UNCHANGED otherVars

RECURSIVE WithoutPacket(_, _)
WithoutPacket(list, id) ==
    IF list = <<>> THEN <<>>
    ELSE IF Head(list).id = id THEN Tail(list)
    ELSE << Head(list) >> \o WithoutPacket(Tail(list), id)
\* FlowTransport::cancelReliable: ReliablePacket::remove takes it off the list
cancelReliable(p, id) ==
    /\ \E i \in 1..Len(ft.peer[p].reliable) : ft.peer[p].reliable[i].id = id
    /\ ft' = [ft EXCEPT !.peer[p].reliable = WithoutPacket(@, id), !.cancelled = @ \cup {id}]
    /\ UNCHANGED otherVars

\* connectionKeeper, idle: something to send wakes it; it is no longer idle and
\* goes on to connect
KeeperWake(p) ==
    /\ Bound(ft, p)
    /\ ft.peer[p].connect.pc = "idle"
    /\ ft.peer[p].unsent # <<>>
    /\ ft' = [ft EXCEPT !.peer[p].outgoingConnectionIdle = FALSE,
                        !.peer[p].connect.pc = "connecting"]
    /\ UNCHANGED otherVars

\* connectionReader as it starts: expectConnectPacket. A connection also
\* remembers how often the keeper that took it had failed before (history).
NewReader == [pc |-> "expect", compatible |-> FALSE]
NewConnection(p) ==
    [ from |-> p, open |-> [q \in Procs |-> TRUE], wire |-> [q \in Procs |-> <<>>],
      reader |-> [q \in Procs |-> NewReader], written |-> [q \in Procs |-> <<>>],
      failures |-> [q \in Procs |-> -1] ]
\* connectionKeeper: connect() returned a connection. The other process's
\* listener accepted it and started connectionIncoming; here the ConnectPacket
\* is prepended and the writer, the reader and the monitor start.
KeeperConnect(p) ==
    /\ ft.peer[p].connect.pc = "connecting"
    /\ Bound(ft, Other(p))
    /\ Len(ft.conns) < MaxConns
    /\ LET c == Len(ft.conns) + 1
           f1 == [ft EXCEPT !.conns = Append(@, NewConnection(p))]
       IN ft' = IF f1.peer[p].unsent = <<>>
                THEN [CloseEnd(f1, p, c) EXCEPT !.peer[p].connect = KeeperIdle,
                                                !.peer[p].outgoingConnectionIdle = TRUE]
                ELSE [prependConnectPacket(f1, p) EXCEPT
                          !.peer[p].connect = [pc |-> "established", conn |-> c],
                          !.conns[c].failures[p] = ft.failures[p]]
    /\ UNCHANGED otherVars

\* connectionKeeper: connect() timed out, connection_failed is thrown
KeeperConnectTimeout(p) ==
    /\ ft.peer[p].connect.pc = "connecting"
    /\ ft' = KeeperCatch(ft, p, FALSE)
    /\ UNCHANGED otherVars

\* connectionWriter: the next packet of unsent goes onto the connection
Write(p) ==
    /\ ft.peer[p].connect.pc = "established"
    /\ ft.peer[p].unsent # <<>>
    /\ LET c == ft.peer[p].connect.conn
           pkt == Head(ft.peer[p].unsent)
       IN /\ ft.conns[c].open[p] /\ ft.conns[c].open[Other(p)]
          /\ ft' = [ft EXCEPT !.peer[p].unsent = Tail(@),
                              !.conns[c].wire[Other(p)] = Append(@, pkt),
                              !.conns[c].written[p] = Append(@, pkt)]
    /\ UNCHANGED otherVars

\* connectionKeeper: the writer, the reader or the monitor of its connection
\* failed, because the other end was closed or, when lost, because the network
\* dropped the connection
ConnectionFailed(p, lost) ==
    /\ ft.peer[p].connect.pc = "established"
    /\ lost \/ ~ft.conns[ft.peer[p].connect.conn].open[Other(p)]
    /\ ft' = KeeperCatch(ft, p, FALSE)
    /\ UNCHANGED otherVars

\* connectionIncoming: the reader failed before a ConnectPacket was read (the
\* dialing process closed the connection), or the wait for one timed out
IncomingFailed(p, c, timedOut) ==
    /\ c \in OpenAt(ft, p)
    /\ ft.conns[c].from # p
    /\ ft.conns[c].reader[p].pc = "expect"
    /\ timedOut \/ ~ft.conns[c].open[Other(p)]
    /\ ft' = CloseEnd(ft, p, c)
    /\ UNCHANGED otherVars

\* every incoming connection is kept
KeepsIncomingAlways(peer, destination, compatibleAddr) == TRUE
\* Peer::onIncomingConnection: the condition under which the new connection is kept
KeepsIncoming(peer, destination, compatibleAddr) ==
    \/ ~isPublic(destination)
    \/ peer.outgoingConnectionIdle
    \/ AddressLess(compatibleAddr, destination)
\* Peer::onIncomingConnection at process p for the Peer its ConnectPacket named
onIncomingConnection(f, p, c) ==
    LET peer == f.peer[p]
        destination == f.address[Other(p)]
        compatibleAddr == f.address[p]
    IN IF ~isPublic(destination) /\ ~peer.outgoingConnectionIdle
       THEN CloseEnd(f, p, c)
       ELSE IF KeepsIncoming(peer, destination, compatibleAddr)
       THEN [prependConnectPacket(KeeperCatch(f, p, TRUE), p) EXCEPT
                 !.peer[p].connect = [pc |-> "established", conn |-> c],
                 !.peer[p].outgoingConnectionIdle = FALSE,
                 !.conns[c].failures[p] = f.failures[p] + 1]
       ELSE CloseEnd(f, p, c)

\* no ConnectPacket is found incompatible
IncompatiblePacketNever(pkt, version) == FALSE
\* connectionReader: the test that finds a ConnectPacket incompatible with the
\* version this process was built at
IncompatiblePacket(pkt, version) ==
    \/ useObjectSerializer # pkt.objectSerializer
    \/ ~isCompatible(pkt.protocolVersion, version)
\* connectionReader on a ConnectPacket (expectConnectPacket)
ReadConnectPacket(f, p, c, bytes) ==
    LET pkt == DeserializeConnectPacket(bytes)
        incompatible == IncompatiblePacket(pkt, f.version[p])
        newer == incompatible /\ pkt.protocolVersion > f.version[p]
        outgoing == f.conns[c].from = p
        peerAddress == IF pkt.canonicalRemotePort # 0
                       THEN NetworkAddress(canonicalRemoteIp(pkt), pkt.canonicalRemotePort, TRUE, FALSE)
                       ELSE NoAddress
        f1 == [f EXCEPT !.conns[c].reader[p] = [pc |-> "reading", compatible |-> ~incompatible]]
    IN IF incompatible /\ ~hasMultiVersionClient(pkt.protocolVersion)
       THEN IF outgoing THEN KeeperCatch(f, p, FALSE) ELSE CloseEnd(f, p, c)
       ELSE IF outgoing
       THEN [f1 EXCEPT !.peer[p].compatible = ~incompatible,
                       !.peer[p].incompatibleProtocolVersionNewer = newer]
       ELSE IF peerAddress # f.address[Other(p)]
       THEN [f1 EXCEPT !.strayPeers[p] = @ \cup {peerAddress}]
       ELSE onIncomingConnection(
                [f1 EXCEPT !.peer[p].compatible = ~incompatible,
                           !.peer[p].incompatibleProtocolVersionNewer = newer], p, c)

\* connectionReader: the next packet that arrived on connection c at process p.
\* The first is the ConnectPacket; after it scanPackets starts deliver for each
\* packet of a compatible peer, and the bytes of an incompatible one are dropped.
Read(p, c) ==
    /\ c \in OpenAt(ft, p)
    /\ ft.conns[c].wire[p] # <<>>
    /\ ft.conns[c].reader[p].pc # "done"
    /\ LET pkt == Head(ft.conns[c].wire[p])
           f1 == [ft EXCEPT !.conns[c].wire[p] = Tail(@)]
       IN ft' = IF ft.conns[c].reader[p].pc = "expect"
                THEN ReadConnectPacket(f1, p, c, pkt)
                ELSE IF ft.conns[c].reader[p].compatible
                THEN StartDeliver(f1, p, Other(p), pkt)
                ELSE f1
    /\ UNCHANGED otherVars

\* FlowTransport::addEndpoint: a random unique token, its stream flag set for a
\* stream receiver and cleared for any other, then EndpointMap::insert. raw is
\* what randomUniqueID returned, without the low 32 bits that insert replaces;
\* no two of its values agree in all the bits a token keeps.
RandomFirsts == 2..3
RandomHighs == 0..1
EndpointToken(raw, stream) ==
    UID(IF stream THEN raw.first - (raw.first % 2) + 1 ELSE raw.first - (raw.first % 2), raw.hi, 0)
KeptBits(raw) == << raw.first \div 2, raw.hi >>
addEndpoint(p, r, stream, raw) ==
    /\ ft.endpoints[p].firstFree # -1
    /\ \A e \in ft.receivers[p] : e.receiver # r /\ KeptBits(e.raw) # KeptBits(raw)
    /\ LET token == InsertedToken(ft.endpoints[p], EndpointToken(raw, stream))
       IN ft' = [ft EXCEPT !.endpoints[p] = EndpointInsert(@, r, token, TaskDefaultEndpoint),
                           !.receivers[p] = @ \cup { [receiver |-> r, token |-> token, raw |-> raw] }]
    /\ UNCHANGED otherVars

\* FlowTransport::removeEndpoint
removeEndpoint(p, e) ==
    /\ e \in ft.receivers[p] \ ft.removed[p]
    /\ ft' = [ft EXCEPT !.endpoints[p] = EndpointRemove(@, e.token, e.receiver),
                        !.removed[p] = @ \cup {e}]
    /\ UNCHANGED otherVars

\* the packet deliver sends when it has no receiver for a stream token
ReplyId(id) == id + MaxPackets
EndpointNotFoundPacket(pkt) ==
    DataPacket(ReplyId(pkt.id), WLTOKEN_ENDPOINT_NOT_FOUND, FALSE, pkt.token)
\* NetworkMessageReceiver::receive of the receiver found
receive(f, p, receiver, pkt) ==
    LET f1 == [f EXCEPT !.received[p] = @ \cup { [receiver |-> receiver, id |-> pkt.id] }]
    IN IF receiver = "endpointNotFound"
       THEN [f1 EXCEPT !.endpointNotFound[p] = @ \cup { pkt.body }]
       ELSE f1
\* deliver, once scheduled: the receiver is looked up now
deliver(f, p, d) ==
    LET receiver == EndpointGet(f.endpoints[p], d.packet.token)
        f1 == [f EXCEPT !.delivering[p] = @ \ {d}]
    IN IF receiver # NoReceiver
       THEN receive(f1, p, receiver, d.packet)
       ELSE IF IsStreamToken(d.packet.token) /\ d.packet.token.first # -1
       THEN sendPacket(f1, p, d.from, EndpointNotFoundPacket(d.packet))
       ELSE f1
Deliver(p, d) ==
    /\ d \in ft.delivering[p]
    /\ ft' = deliver(ft, p, d)
    /\ UNCHANGED otherVars

\* ---------------------------------------------------------------------------
\* Specification for deliver and the EndpointMap: process 1 sends to tokens of
\* process 2 that are registered, were removed, were never issued, or are the
\* stale token of a slot in use again.

Address1 == NetworkAddress(IPAddress(FALSE, 1), 1, TRUE, FALSE)
Address2 == NetworkAddress(IPAddress(FALSE, 2), 1, TRUE, FALSE)
MaxDeliverPackets == 2
\* tokens nobody was ever given: a stream token, one that is not, and a
\* well-known one (first = -1) without a receiver
UnknownTokens == { UID(7, 1, 2), UID(6, 1, 3), UID(-1, 0, 2) }
DeliverTokens(f) == { e.token : e \in f.receivers[2] } \cup UnknownTokens

NextDeliver ==
    \/ Bind(1, Address1, currentProtocolVersion)
    \/ Bind(2, Address2, currentProtocolVersion)
    \/ \E stream \in BOOLEAN : addEndpoint(2, "r1", stream, [first |-> 2, hi |-> 0])
    \/ \E stream \in BOOLEAN : addEndpoint(2, "r2", stream, [first |-> 3, hi |-> 1])
    \/ \E e \in ft.receivers[2] : removeEndpoint(2, e)
    \/ \E token \in DeliverTokens(ft) : ft.packets < MaxDeliverPackets /\ Send(1, 2, token, FALSE)
    \/ \E token \in UnknownTokens : ft.packets < MaxDeliverPackets /\ Send(2, 2, token, FALSE)
    \/ \E p \in Procs : KeeperWake(p)
    \/ \E p \in Procs : KeeperConnect(p)
    \/ \E p \in Procs : Write(p)
    \/ \E p \in Procs, c \in 1..MaxConns : Read(p, c)
    \/ \E p \in Procs : \E d \in ft.delivering[p] : Deliver(p, d)

SpecDeliver == Init /\ [][NextDeliver]_vars

\* the receivers process p has registered and not removed; the two well-known
\* ones are registered by TransportData()
HasReceiver(f, p, token) ==
    \/ token \in {WLTOKEN_ENDPOINT_NOT_FOUND, WLTOKEN_PING_PACKET}
    \/ \E e \in f.receivers[p] \ f.removed[p] : e.token = token
Range(seq) == { seq[i] : i \in 1..Len(seq) }
\* deliver's endpoint_not_found packet for d went to where d came from: onto the
\* Peer's unsent queue, or, for a packet of this process, into a local deliver
NotFoundReplySent(p, d) ==
    LET reply == EndpointNotFoundPacket(d.packet) IN
    IF d.from = p
    THEN [from |-> p, packet |-> reply] \in ft'.delivering[p] \ ft.delivering[p]
    ELSE reply \in Range(ft'.peer[p].unsent) \ Range(ft.peer[p].unsent)
DeliverUnknown(p, d) == Deliver(p, d) /\ ~HasReceiver(ft, p, d.packet.token)

\* C27 (as stated): a packet for a token without a registered receiver is
\* answered with endpoint_not_found naming the token, and no receiver is invoked.
C27_UnknownTokenAnswered ==
    [][\A p \in Procs : \A d \in ft.delivering[p] :
          DeliverUnknown(p, d) => (ft'.received = ft.received /\ NotFoundReplySent(p, d))]_vars

\* C27 (amended): a packet for a token without a registered receiver invokes no
\* receiver; it is answered with endpoint_not_found naming the token exactly
\* when the token is a stream token (TOKEN_STREAM_FLAG set in its first word)
\* whose first word is not -1, and is dropped silently otherwise.
C27_UnknownStreamTokenAnswered ==
    [][\A p \in Procs : \A d \in ft.delivering[p] :
          DeliverUnknown(p, d) =>
              /\ ft'.received = ft.received
              /\ NotFoundReplySent(p, d) <=> (IsStreamToken(d.packet.token) /\ d.packet.token.first # -1)
              /\ ~NotFoundReplySent(p, d) => ft'.peer = ft.peer /\ ft'.delivering[p] = ft.delivering[p] \ {d}]_vars

\* the sender was told that the stale token of a slot in use again is gone
C27_Witness ==
    \E e1 \in ft.removed[2] : \E e2 \in ft.receivers[2] \ ft.removed[2] :
        /\ e1.token.lo = e2.token.lo
        /\ e1.token \in ft.endpointNotFound[1]
        /\ ft.received[2] = {}

\* ---------------------------------------------------------------------------
\* Specification for the simultaneous open: two processes with public
\* addresses send to each other, so both keepers may dial at once. No
\* connection is lost by the network and no connect() times out here; a
\* connection fails only because its other end was closed.

\* three addresses: the ip decides before the port, version 4 before version 6
OpenAddresses ==
    { NetworkAddress(IPAddress(FALSE, 1), 2, TRUE, FALSE),
      NetworkAddress(IPAddress(FALSE, 2), 1, TRUE, FALSE),
      NetworkAddress(IPAddress(TRUE, 1), 1, TRUE, FALSE) }
MaxOpenPackets == 2
NextOpen ==
    \/ \E p \in Procs, a \in OpenAddresses : Bind(p, a, currentProtocolVersion)
    \/ \E p \in Procs, reliable \in BOOLEAN :
           ft.packets < MaxOpenPackets /\ Send(p, Other(p), WLTOKEN_PING_PACKET, reliable)
    \/ \E p \in Procs : KeeperWake(p)
    \/ \E p \in Procs : KeeperConnect(p)
    \/ \E p \in Procs : Write(p)
    \/ \E p \in Procs, c \in 1..MaxConns : Read(p, c)
    \/ \E p \in Procs : ConnectionFailed(p, FALSE)
    \/ \E p \in Procs, c \in 1..MaxConns : IncomingFailed(p, c, FALSE)
    \/ \E p \in Procs : \E d \in ft.delivering[p] : Deliver(p, d)

SpecOpen == Init /\ [][NextOpen]_vars

Conns == 1..Len(ft.conns)
\* a connection both processes still hold open
Survives(c) == \A p \in Procs : ft.conns[c].open[p]
Larger == CHOOSE p \in Procs : AddressLess(ft.address[Other(p)], ft.address[p])
\* both processes dialed: each opened a connection to the other
BothDialed == \A p \in Procs : \E c \in Conns : ft.conns[c].from = p
\* nothing is left to happen: no keeper is about to dial, no connection is
\* waiting for its ConnectPacket or half closed, nothing is unread or unwritten
Settled ==
    /\ \A p \in Procs :
          /\ ft.peer[p].connect.pc # "connecting"
          /\ ft.peer[p].connect.pc = "idle" => ft.peer[p].unsent = <<>>
          /\ ft.peer[p].connect.pc = "established" => ft.peer[p].unsent = <<>>
          /\ ft.delivering[p] = {}
    /\ \A c \in Conns :
          /\ ft.conns[c].open[1] = ft.conns[c].open[2]
          /\ \A p \in Procs : ft.conns[c].wire[p] = <<>>
          /\ \A p \in Procs : ft.conns[c].open[p] => ft.conns[c].reader[p].pc = "reading"
\* the ConnectPacket of connection c, dialed by the other process, is read at
\* process p while p's own keeper is dialing or connected
IncomingWhileDialing(p, c) ==
    /\ Read(p, c)
    /\ ft.conns[c].from = Other(p)
    /\ ft.conns[c].reader[p].pc = "expect"
    /\ ~ft.peer[p].outgoingConnectionIdle
\* process p took connection c for its Peer and closed the one it had dialed
Adopts(p, c) ==
    /\ ft'.peer[p].connect = [pc |-> "established", conn |-> c]
    /\ ft'.conns[c].open[p]
    /\ \A d \in Conns : ft.conns[d].from = p => ~ft'.conns[d].open[p]
\* process p closed connection c and its keeper goes on as before
Refuses(p, c) ==
    /\ ~ft'.conns[c].open[p]
    /\ ft'.peer[p] = ft.peer[p]
    /\ \A d \in Conns : ft.conns[d].from = p => ft'.conns[d] = ft.conns[d]

\* C24: when two processes with public addresses dial each other at once, the
\* process with the smaller address adopts the incoming connection and closes
\* the one it dialed, the process with the larger address closes the incoming
\* connection and keeps the one it dialed; once everything has settled exactly
\* one connection survives, and the process with the larger address dialed it.
C24_LargerAddressKeepsItsConnection ==
    /\ [][\A p \in Procs : \A c \in Conns :
             IncomingWhileDialing(p, c) =>
                 IF p = Larger THEN Refuses(p, c) ELSE Adopts(p, c)]_vars
    /\ []((BothDialed /\ Settled) =>
             /\ Cardinality({ c \in Conns : Survives(c) }) = 1
             /\ \A c \in Conns : Survives(c) => ft.conns[c].from = Larger)

\* both dialed, everything settled, and the connection the smaller address
\* dialed first is closed while a later one of the larger address is open
C24_Witness ==
    /\ BothDialed /\ Settled
    /\ ft.conns[1].from # Larger /\ ~Survives(1)
    /\ \E c \in Conns : Survives(c) /\ ft.conns[c].from = Larger
    /\ ft.received[Larger] # {}

\* ---------------------------------------------------------------------------
\* Specification for reliable and unreliable sends: process 1 sends to
\* process 2 while its connections are lost, its connects time out and
\* reliable packets are cancelled.

MaxFailures == 1
MaxResendConns == 2
NextResend ==
    \/ Bind(1, Address1, currentProtocolVersion)
    \/ Bind(2, Address2, currentProtocolVersion)
    \/ \E reliable \in BOOLEAN : Send(1, 2, WLTOKEN_PING_PACKET, reliable)
    \/ \E id \in 1..MaxPackets : cancelReliable(1, id)
    \/ \E p \in Procs : KeeperWake(p)
    \/ \E p \in Procs : Len(ft.conns) < MaxResendConns /\ KeeperConnect(p)
    \/ ft.failures[1] < MaxFailures /\ KeeperConnectTimeout(1)
    \/ \E p \in Procs : Write(p)
    \/ \E p \in Procs, c \in 1..MaxConns : Read(p, c)
    \/ \E p \in Procs : ConnectionFailed(p, FALSE)
    \/ ft.failures[1] < MaxFailures /\ ConnectionFailed(1, TRUE)
    \/ \E c \in 1..MaxConns : IncomingFailed(2, c, FALSE)

SpecResend == Init /\ [][NextResend]_vars

\* the data packets of a queue, without the ConnectPacket
RECURSIVE DataPackets(_)
DataPackets(q) ==
    IF q = <<>> THEN <<>>
    ELSE IF Head(q).kind = "data" THEN << Head(q) >> \o DataPackets(Tail(q))
    ELSE DataPackets(Tail(q))
\* the reliable packets process p queued and nobody cancelled, in the order
\* they were sent (packets are numbered as they are sent)
RECURSIVE ReliableFrom(_, _, _)
ReliableFrom(f, p, id) ==
    IF id > f.packets THEN <<>>
    ELSE IF /\ \E e \in f.queued : e.id = id /\ e.by = p /\ e.reliable
            /\ id \notin f.cancelled
    THEN << DataPacket(id, WLTOKEN_PING_PACKET, TRUE, "message") >> \o ReliableFrom(f, p, id + 1)
    ELSE ReliableFrom(f, p, id + 1)
UncancelledReliable(f, p) == ReliableFrom(f, p, 1)
QueuedAt(id) == (CHOOSE e \in ft.queued : e.id = id).failures

\* C25: when a keeper's catch block has run (a connection failed, a connect
\* timed out, the keeper was cancelled for an incoming connection) the Peer's
\* unsent queue holds exactly the reliable packets not cancelled, in the order
\* they were sent; a reliable packet not cancelled is written or waiting to be
\* written on whatever connection the keeper holds; and an unreliable packet is
\* written only on a connection taken before any failure that followed its
\* queueing.
C25_OnlyReliablePacketsResent ==
    /\ [][\A p \in Procs : ft'.failures[p] # ft.failures[p] =>
             DataPackets(ft'.peer[p].unsent) = UncancelledReliable(ft', p)]_vars
    /\ [](\A p \in Procs : ft.peer[p].connect.pc = "established" =>
             \A i \in 1..Len(UncancelledReliable(ft, p)) :
                 UncancelledReliable(ft, p)[i] \in
                     Range(ft.peer[p].unsent) \cup Range(ft.conns[ft.peer[p].connect.conn].written[p]))
    /\ [](\A c \in Conns : \A p \in Procs : \A pkt \in Range(ft.conns[c].written[p]) :
             (pkt.kind = "data" /\ ~pkt.reliable) => QueuedAt(pkt.id) = ft.conns[c].failures[p])

\* after a lost connection the second one carried the reliable packet again,
\* and neither the unreliable packet queued before the loss nor the reliable
\* packet cancelled before it
C25_Witness ==
    /\ Len(ft.conns) = 2
    /\ ft.failures[1] >= 1
    /\ \E r, u, x \in 1..MaxPackets :
          /\ \E i \in 1..Len(ft.conns[1].written[1]) : ft.conns[1].written[1][i] = DataPacket(r, WLTOKEN_PING_PACKET, TRUE, "message")
          /\ \E i \in 1..Len(ft.conns[2].written[1]) : ft.conns[2].written[1][i] = DataPacket(r, WLTOKEN_PING_PACKET, TRUE, "message")
          /\ \E e \in ft.queued : e.id = u /\ e.failures = 0
          /\ \A c \in Conns : \A i \in 1..Len(ft.conns[c].written[1]) : ft.conns[c].written[1][i].kind = "data" => ft.conns[c].written[1][i].id # u
          /\ x \in ft.cancelled
          /\ \E i \in 1..Len(ft.conns[1].written[1]) : ft.conns[1].written[1][i].kind = "data" /\ ft.conns[1].written[1][i].id = x
          /\ \A i \in 1..Len(ft.conns[2].written[1]) : ft.conns[2].written[1][i].kind = "data" => ft.conns[2].written[1][i].id # x
          /\ ft.peer[1].unsent = <<>>

\* ---------------------------------------------------------------------------
\* Specification for the handshake: the two processes are built at any two of
\* five protocol versions and send to each other.

\* before multi-version clients; an older family with multi-version clients;
\* the current family without IPv6; the current version; a newer family
HandshakeVersions == {1, 3, 4, currentProtocolVersion, 9}
Address6 == NetworkAddress(IPAddress(TRUE, 1), 1, TRUE, FALSE)
MaxHandshakePackets == 2
NextHandshake ==
    \/ \E a \in {Address1, Address6}, v \in HandshakeVersions : Bind(1, a, v)
    \/ \E v \in HandshakeVersions : Bind(2, Address2, v)
    \/ \E p \in Procs :
           ft.packets < MaxHandshakePackets /\ Send(p, Other(p), WLTOKEN_PING_PACKET, FALSE)
    \/ \E p \in Procs : KeeperWake(p)
    \/ \E p \in Procs : KeeperConnect(p)
    \/ \E p \in Procs : Write(p)
    \/ \E p \in Procs, c \in 1..MaxConns : Read(p, c)
    \/ \E p \in Procs : ConnectionFailed(p, FALSE)
    \/ \E p \in Procs, c \in 1..MaxConns : IncomingFailed(p, c, FALSE)
    \/ \E p \in Procs : \E d \in ft.delivering[p] : Deliver(p, d)

SpecHandshake == Init /\ [][NextHandshake]_vars

BothBound == \A p \in Procs : Bound(ft, p)
\* the versions as the builds define them: the same release family
SameFamily == (ft.version[1] \div FamilySize) = (ft.version[2] \div FamilySize)
\* process p reads the ConnectPacket of connection c
ReadsConnectPacket(p, c) == Read(p, c) /\ ft.conns[c].reader[p].pc = "expect"
\* process p reads a later packet of connection c
ReadsData(p, c) == Read(p, c) /\ ft.conns[c].reader[p].pc = "reading"
\* what process p has delivered or is delivering, and what its receivers got
Delivered(f, p) == << f.delivering[p], f.received[p], f.endpointNotFound[p] >>

\* C26: between processes of incompatible protocol versions nothing that
\* arrives on a connection is ever delivered. When the ConnectPacket is read,
\* the connection is closed if the peer's version has no multi-version client;
\* otherwise the reader goes on, incompatible, and every later packet is
\* dropped while the connection stays open. Between compatible processes,
\* whether the ConnectPacket is the short IPv4 form or carries an IPv6
\* address, the peer is the one that dialed and every later packet is delivered.
C26_IncompatiblePeersDeliverNothing ==
    /\ []((BothBound /\ ~SameFamily) =>
             \A p \in Procs : ft.delivering[p] = {} /\ ft.received[p] = {})
    /\ [](\A p \in Procs : ft.strayPeers[p] = {})
    /\ [][\A p \in Procs : \A c \in Conns :
             (ReadsConnectPacket(p, c) /\ ~SameFamily) =>
                 IF hasMultiVersionClient(ft.version[Other(p)])
                 THEN ft'.conns[c].open[p] => ft'.conns[c].reader[p] = [pc |-> "reading", compatible |-> FALSE]
                 ELSE ~ft'.conns[c].open[p]]_vars
    /\ [][\A p \in Procs : \A c \in Conns :
             ReadsData(p, c) =>
                 IF SameFamily
                 THEN [from |-> Other(p), packet |-> Head(ft.conns[c].wire[p])] \in ft'.delivering[p]
                 ELSE /\ Delivered(ft', p) = Delivered(ft, p)
                      /\ ft'.conns[c].open = ft.conns[c].open
                      /\ ft'.conns[c].wire[p] = Tail(ft.conns[c].wire[p])]_vars

\* an incompatible multi-version peer's connection stayed open and a packet
\* that arrived on it was dropped
C26_Witness ==
    /\ BothBound /\ ~SameFamily
    /\ \E c \in Conns : \E p \in Procs :
          /\ Survives(c)
          /\ ft.conns[c].reader[p] = [pc |-> "reading", compatible |-> FALSE]
          /\ \E i \in 1..Len(ft.conns[c].written[Other(p)]) : ft.conns[c].written[Other(p)][i].kind = "data"
          /\ ft.conns[c].wire[p] = <<>>

\* ---------------------------------------------------------------------------
\* KeyValueStoreMemory: set, clear, commit, the snapshot actor, recovery
\* ---------------------------------------------------------------------------

MaxStoreCalls == 2
MaxStoreCommits == 2
MaxStoreCrashes == 2
StoreKeys == { << 1 >>, << 3 >> }
StoreValues == { << 8 >> }
StoreRanges == { << << 1 >>, << 4 >> >>, << << 2 >>, << 4 >> >> }

otherStoreVars == << fq, id_data, tl, dq, kv, commits, qcs, pops, us, sent, hist, ft >>

StoreSet(key, value) ==
  /\ ks.calls < MaxStoreCalls
  /\ ks' = [set(ks, key, value) EXCEPT
              !.ideal = DataInsert(@, key, value), !.calls = @ + 1]
  /\ UNCHANGED otherStoreVars

StoreClear(begin, end) ==
  /\ ks.calls < MaxStoreCalls
  /\ KeyLess(begin, end)
  /\ ks' = [clear(ks, begin, end) EXCEPT
              !.ideal = DataErase(@, begin, end), !.calls = @ + 1]
  /\ UNCHANGED otherStoreVars

\* commit() waits for recovery (waitAndCommit), logs, and asks the disk queue
\* to commit; the returned future is pending until StoreCommitDone
StoreCommit ==
  /\ ~ ks.recovering
  /\ ks.commits < MaxStoreCommits
  /\ LET c == commit(ks)
     IN ks' = [c EXCEPT
                 !.commits = @ + 1,
                 !.points = Append(@, [end |-> Location(c.front, c.log),
                                       data |-> ks.ideal])]
  /\ UNCHANGED otherStoreVars

\* the points that a crash keeping `n` bytes can still fall back to
LastPoint(points, n) ==
  LET i == CHOOSE j \in 1..Len(points) :
             /\ points[j].end <= n
             /\ \A l \in 1..Len(points) : points[l].end <= n => l <= j
  IN points[i]

StoreCommitDone ==
  /\ ks.pending # <<>>
  /\ LET stable == LastPoint(ks.points, Head(ks.pending).end)
     IN ks' = [commitAndUpdateVersions(ks) EXCEPT
                 !.points = SelectSeq(@, LAMBDA p : p.end >= stable.end)]
  /\ UNCHANGED otherStoreVars

\* the process dies; the disk queue keeps the durable bytes and any prefix of
\* the bytes pushed after them, and the store is constructed again over it
StoreCrash(n) ==
  /\ ks.crashes < MaxStoreCrashes
  /\ n >= ks.durable
  /\ n <= Location(ks.front, ks.log)
  /\ LET expected == LastPoint(ks.points, n).data
     IN ks' = NewStore(SubSeq(ks.log, 1, n - ks.front), ks.front,
                       [ ideal |-> expected,
                         points |-> << [end |-> 0, data |-> expected] >>,
                         calls |-> ks.calls,
                         commits |-> ks.commits,
                         crashes |-> ks.crashes + 1,
                         lost |-> ks.ideal # expected ])
  /\ UNCHANGED otherStoreVars

StoreRecover ==
  /\ ks.recovering
  /\ ks' = recover(ks)
  /\ UNCHANGED otherStoreVars

NextStore ==
  \/ \E key \in StoreKeys : \E value \in StoreValues : StoreSet(key, value)
  \/ \E range \in StoreRanges : StoreClear(range[1], range[2])
  \/ StoreCommit
  \/ StoreCommitDone
  \/ \E n \in ks.durable..Location(ks.front, ks.log) : StoreCrash(n)
  \/ StoreRecover

SpecStore == Init /\ [][NextStore]_vars

\* C28: whenever the store is open (recovery is over), it holds exactly the
\* effects of the calls that count: after a crash that kept a prefix of the
\* log, those up to the last commit whose OpCommit lies in the prefix, none of
\* the later ones, and the calls made since
C28_RecoveryIsAtomic ==
  ~ ks.recovering => /\ ks.data = ks.ideal
                     /\ ~ ks.asserted

\* a second recovery, over a log in which the first one zero-filled a torn
\* operation and logged OpRollback: it skipped the zero-filled operation, read
\* the OpRollback, replayed snapshot items, found a torn tail again, and
\* dropped mutations that had been issued after the last commit
C28_Witness ==
  /\ ~ ks.recovering
  /\ ks.crashes = 2
  /\ ks.lost
  /\ ks.skippedZeroFill > 0
  /\ ks.rollbacks > 0
  /\ ks.zeroFilled > 0
  /\ ks.snapshotItems > 0
  /\ ks.data # {}

(***************************************************************************)
(* The reclamation of the disk queue by popDiskQueue.                      *)
(***************************************************************************)
\* one generation with the storage tag T0 only: commits, spilling by reference,
\* pops of T0 at any moment (tLogPopCore takes no lock), the crash of the process
\* with the whole queue on disk, restorePersistentState, and a peek of T0 by the
\* restarted process
NextReclaim ==
    \/ PeekDeliver
    \/ Running /\ TLogStart(1, NewRecruit({T0}, 0))
    \/ Running /\ StartSteps({1})
    \/ Running /\ QueueSteps
    \/ Running /\ StorageSteps
    \/ \E v \in 1..MaxVersion :
           /\ Running /\ InOrder(1, Request(v - 1, CommitBatch, 0, FALSE))
           /\ CommitArrive(1, v, 1, Request(v - 1, CommitBatch, 0, FALSE), FALSE)
    \/ \E a \in commits : CommitReply(a)
    \/ \E to \in 2..(MaxVersion + 1) : Running /\ PopArrive(1, T0, to)
    \/ \E p \in pops : PopErase(p)
    \/ \E landed \in BOOLEAN :
           tl.peeks = {} /\ hist.peek = NoReply /\ Crash(Len(dq.entries), landed)
    \/ RestoreBegin
    \/ RestoreReadNext
    \/ RestoreDone
    \/ /\ Running /\ hist.crashes > 0 /\ hist.peek = NoReply /\ tl.peeks = {}
       /\ \E begin \in 1..MaxVersion : PeekArrive(1, 0, -1, T0, begin, FALSE, FALSE)
    \/ \E a \in tl.peeks : PeekSpilledReady(a)
    \/ \E a \in tl.peeks, readable \in BOOLEAN : PeekQueueRead(a, readable)

SpecReclaim == Init /\ [][NextReclaim]_vars

\* the popped version of a tag as persistentData holds it (persistTagPoppedKeys)
PersistedPopped(keys, tag) ==
    IF \E k \in keys.popped : k.tag = tag
    THEN (CHOOSE k \in keys.popped : k.tag = tag).popped
    ELSE 0

\* the items of the spilled-reference records of a generation in persistentData
SpilledItems(keys) ==
    UNION { { [tag |-> r.tag, version |-> r.items[i].version, begin |-> r.items[i].begin] :
                i \in 1..Len(r.items) } : r \in keys.refs }

\* TagData::popped, 0 for a tag without TagData
PoppedOf(g, tag) ==
    IF id_data[g].tag_data[tag] = NoTagData THEN 0 ELSE id_data[g].tag_data[tag].popped

\* the queue entries of versions not yet spilled lie at or above the pop point
UnspilledKept ==
    \A g \in GenIds : Live(g) =>
        \A e \in id_data[g].versionLocation :
            e.version > id_data[g].persistentDataVersion => e.begin >= dq.popped

\* the queue entries that a durable spilled-reference record names for a version at
\* or above the persisted popped version of its tag lie at or above the pop point
PersistedRefsKept ==
    \A g \in GenIds : kv.durable.gens[g] # NoKeys =>
        \A n \in SpilledItems(kv.durable.gens[g]) :
            (n.tag # txsTag /\ n.version >= PersistedPopped(kv.durable.gens[g], n.tag))
                => n.begin >= dq.popped

\* a peek from a version at or above popped(tag) that has resolved spilled
\* references reads no location below the pop point
PeekReadsKept ==
    \A a \in tl.peeks :
        (a.pc = "readQueue" /\ Live(a.gen) /\ PoppedOf(a.gen, a.tag) <= a.begin)
            => \A i \in 1..Len(a.locs) : a.locs[i] >= dq.popped

\* C31: the disk queue is never popped past the start of an entry that is still
\* needed: an entry of a version not yet spilled, or an entry named by a
\* spilled-reference record for a tag at a version at or above the persisted popped
\* version of the tag; and a peek from a version at or above popped(tag) never reads
\* below the pop point, also after a crash and restart
C31_QueueKeepsNeededEntries ==
    /\ UnspilledKept
    /\ PersistedRefsKept
    /\ PeekReadsKept

(***************************************************************************)
(* The writers of persistentData and persistentDataCommitLock.             *)
(***************************************************************************)
\* every generation the process may hold, recruited for T0 in turn: commits,
\* spilling, and the displacement, removal and destruction of a generation while
\* its successor initialises its persistent state or is spilled
NextSerial ==
    \/ \E g \in GenIds : TLogStart(g, NewRecruit({T0}, 0))
    \/ StartSteps(GenIds)
    \/ QueueSteps
    \/ StorageSteps
    \/ \E g \in GenIds, v \in 1..MaxVersion :
           /\ InOrder(g, Request(v - 1, CommitBatch, 0, FALSE))
           /\ CommitArrive(g, v, 1, Request(v - 1, CommitBatch, 0, FALSE), FALSE)
    \/ \E a \in commits : CommitReply(a)
    \/ \E g \in GenIds : Displaced(g)
    \/ \E g \in GenIds : TLogStartRemoved(g)
    \/ \E g \in GenIds : DestroyLogData(g)

SpecSerial == Init /\ [][NextSerial]_vars

\* the step takes persistentDataCommitLock, which was free
TakesCommitLock ==
    tl.persistentDataCommitLock = NoActor /\ tl'.persistentDataCommitLock # NoActor

\* the step issues a set or clear on persistentData, or calls its commit()
WritesPersistentData ==
    kv'.cur # kv.cur \/ (kv.committing = NoStore /\ kv'.committing # NoStore)

\* the step enters updatePersistentData
EntersUpdatePersistentData == us.pc = "waitQC" /\ us'.pc = "kvCommit"

\* the ASSERT at the entry of updatePersistentData
EntryAssertion ==
    id_data[us.gen].persistentDataVersion = id_data[us.gen].persistentDataDurableVersion

\* the step is ~LogData of generation g: it clears the keys of g and calls no commit()
DestructorClears(g) ==
    /\ Live(g) /\ id_data'[g] = Gone
    /\ kv'.cur = [kv.cur EXCEPT !.gens[g] = NoKeys]
    /\ kv'.committing = kv.committing

\* C32 as stated: an updatePersistentData starts only with the lock free and its
\* entry assertion true, and every set, clear and commit on persistentData is issued
\* by the actor that has just taken persistentDataCommitLock
C32_OnlyLockHolderWrites ==
    [][ /\ EntersUpdatePersistentData => EntryAssertion
        /\ WritesPersistentData => TakesCommitLock ]_vars

\* C32, amended: an updatePersistentData starts only with the lock free and its entry
\* assertion true, and every set and commit on persistentData is issued by the actor
\* that has just taken persistentDataCommitLock; the one writer without the lock is
\* ~LogData, which clears the keys of its own generation and calls no commit()
C32_SpillsSerialized ==
    [][ /\ EntersUpdatePersistentData => EntryAssertion
        /\ WritesPersistentData => (TakesCommitLock \/ \E g \in GenIds : DestructorClears(g)) ]_vars

\* updatePersistentData of the second generation is waiting for its commit() while
\* the first generation was destroyed: the clears of ~LogData came after the
\* commit() call and are not in the batch in flight
C32_Witness ==
    /\ tl.persistentDataCommitLock = << "updateStorage" >>
    /\ us.pc = "kvCommit" /\ us.gen = 2
    /\ kv.committing # NoStore
    /\ kv.cur # kv.committing
    /\ id_data[1] = Gone

(***************************************************************************)
(* An error in a spill iteration.                                          *)
(***************************************************************************)
\* a variant of UpdateStorageError in which the FlowLock::Releaser of the failed
\* updateStorage does not give the lock back
UpdateStorageErrorKeepsLock ==
    /\ us.pc \in {"kvCommit", "erase"}
    /\ us' = [UsIdle EXCEPT !.pc = "dead"]
    /\ tl' = [NewTLogData EXCEPT !.restore = tl.restore,
                               !.persistentDataCommitLock = tl.persistentDataCommitLock]
    /\ id_data' = [g \in GenIds |-> IF Live(g) THEN Gone ELSE id_data[g]]
    /\ commits' = {} /\ qcs' = {} /\ pops' = {}
    /\ UNCHANGED << ft, ks, fq, dq, kv, sent, hist >>

\* persistentData->commit() in updatePersistentData or the readRange of
\* updatePoppedLocation fails: the error leaves updateStorage (its Releaser gives the
\* lock back) and updateStorageLoop, which has no try/catch; actorCollection hands
\* it to tLog(), whose catch block sends terminated, closes persistentData and the
\* queue and rethrows. TLogData is destroyed with its actors; ~LogData clears no
\* keys because terminated is set.
UpdateStorageError ==
    /\ us.pc \in {"kvCommit", "erase"}
    /\ us' = [UsIdle EXCEPT !.pc = "dead"]
    /\ tl' = [NewTLogData EXCEPT !.restore = tl.restore]
    /\ id_data' = [g \in GenIds |-> IF Live(g) THEN Gone ELSE id_data[g]]
    /\ commits' = {} /\ qcs' = {} /\ pops' = {}
    /\ UNCHANGED << ft, ks, fq, dq, kv, sent, hist >>

\* updateStorageLoop has ended with an error
LoopEnded == us.pc = "dead"

\* one generation that commits and spills, an error in a spill iteration, pops of T0,
\* and after the error the restart of the worker on the same files (Crash, then
\* restorePersistentState)
NextSpillError ==
    \/ Running /\ TLogStart(1, NewRecruit({T0}, 0))
    \/ Running /\ StartSteps({1})
    \/ Running /\ QueueSteps
    \/ Running /\ StorageSteps
    \/ \E v \in 1..MaxVersion :
           /\ Running /\ InOrder(1, Request(v - 1, CommitBatch, 0, FALSE))
           /\ CommitArrive(1, v, 1, Request(v - 1, CommitBatch, 0, FALSE), FALSE)
    \/ \E a \in commits : CommitReply(a)
    \/ \E to \in 2..(MaxVersion + 1) : Running /\ PopArrive(1, T0, to)
    \/ \E p \in pops : PopErase(p)
    \/ UpdateStorageError
    \/ \E n \in 0..MaxVersion, landed \in BOOLEAN : LoopEnded /\ Crash(n, landed)
    \/ RestoreBegin
    \/ RestoreReadNext
    \/ RestoreDone

SpecSpillError == Init /\ [][NextSpillError]_vars

\* C33 as stated: after an error in a spill iteration the lock is free, the
\* update-storage loop is back at the start of an iteration with the generations
\* still served, and an iteration starts with persistentDataVersion equal to
\* persistentDataDurableVersion
C33_LoopRetriesAfterError ==
    [][ /\ UpdateStorageError =>
              /\ tl'.persistentDataCommitLock = NoActor
              /\ us'.pc = "idle"
              /\ \A g \in GenIds : Live(g) => Live(g)'
        /\ EntersUpdatePersistentData => EntryAssertion ]_vars

\* C33, amended: an error in a spill iteration releases the lock and ends the
\* update-storage loop and with it the shared log: no generation is served any more
\* and no iteration starts until the worker is started again on the files; the
\* iterations after the restart start with persistentDataVersion equal to
\* persistentDataDurableVersion
C33_ErrorEndsSharedLog ==
    [][ /\ UpdateStorageError =>
              /\ tl'.persistentDataCommitLock = NoActor
              /\ LoopEnded'
              /\ \A g \in GenIds : ~Live(g)'
        /\ LoopEnded => (LoopEnded' \/ hist'.crashes = hist.crashes + 1)
        /\ EntersUpdatePersistentData => (EntryAssertion /\ tl.persistentDataCommitLock = NoActor) ]_vars

\* after an error in a spill iteration and the restart of the worker, the
\* restored generation is being spilled again
C33_Witness ==
    /\ hist.crashes > 0
    /\ us.pc = "kvCommit"
    /\ tl.persistentDataCommitLock = << "updateStorage" >>
    /\ Live(1) /\ id_data[1].startPc = "core"

(***************************************************************************)
(* execOpLock and the commit of an exec operation.                         *)
(***************************************************************************)
\* the tLogCommit actor a carries an exec operation and has set
\* execOpCommitInProgress: it waits for execOpLock inside the critical section, or
\* has pushed its version and waits for the queue commit
ExecCommitting(a) ==
    /\ sent[a.gen][a.version].hasExecOp
    /\ a.pc = "waitLock1937" \/ (a.pc = "waitQueue" /\ a.pushed)

\* a step in which the exec commit a takes no part leaves the pushed versions and
\* the version of its generation alone
NoOtherCommitAdvances ==
    \A a \in commits :
        (ExecCommitting(a) /\ a \in commits') =>
            /\ hist'.pushed[a.gen] = hist.pushed[a.gen]
            /\ id_data'[a.gen].version = id_data[a.gen].version

\* whoever holds execOpLock or waits for it is a tLogCommit actor that is still running
ExecOpLockHeldByCommit ==
    \A g \in GenIds : Live(g) =>
        LET lock == id_data[g].execOpLock
            running == { ActorId(a) : a \in commits }
        IN /\ lock.holder # NoActor => lock.holder \in running
           /\ \A i \in 1..Len(lock.waiters) : lock.waiters[i] \in running

\* C34: from the moment a commit with an exec operation sets execOpCommitInProgress
\* until it has released execOpLock, no other commit of the generation pushes a
\* queue entry or advances version; and the lock is released by the commit that
\* took it (its holder is always a running tLogCommit)
C34_ExecCommitExcludesOthers ==
    [][ NoOtherCommitAdvances /\ ExecOpLockHeldByCommit' ]_vars

(***************************************************************************)
(* The pop point of the log of KeyValueStoreMemory.                        *)
(***************************************************************************)
\* what recover builds from the log between the pop point and the last durable commit
ReplayFromPopPoint ==
  recover(NewStore(SubSeq(ks.log, 1, ks.durable - ks.front), ks.front, NoPast)).data

\* C35: the log is popped at most up to the end of the second most recently
\* completed snapshot and at most up to the last durable commit, and replaying the
\* log from the pop point reconstructs exactly the data of the last durable commit
C35_LogPoppedSafely ==
  ~ ks.recovering =>
      /\ ks.front <= ks.previousSnapshotEnd
      /\ ks.front <= ks.durable
      /\ ReplayFromPopPoint = LastPoint(ks.points, ks.durable).data

\* a commit of this run became durable and popped the log beyond the pop point the
\* store was opened with; the data of the last durable commit differs from what
\* the store was opened with
C35_Witness ==
  /\ ~ ks.recovering /\ ks.crashes = 0
  /\ ks.front > KsInit.front
  /\ ks.pending = <<>>
  /\ LastPoint(ks.points, ks.durable).data # {}
  /\ LastPoint(ks.points, ks.durable).data # KsInit.ideal

(***************************************************************************)
(* The entries restorePersistentState reads from the disk queue.           *)
(***************************************************************************)
\* every generation the process may hold, recruited for T0 in turn: commits,
\* spilling, displacement and destruction, the crash of the process at any point
\* and restorePersistentState on what survived; the restored generations are
\* spilled on
NextRestoreGens ==
    \/ \E g \in GenIds : Running /\ TLogStart(g, NewRecruit({T0}, 0))
    \/ Running /\ StartSteps(GenIds)
    \/ Running /\ QueueSteps
    \/ Running /\ StorageSteps
    \/ \E g \in GenIds, v \in 1..MaxVersion :
           /\ Running /\ InOrder(g, Request(v - 1, CommitBatch, 0, FALSE))
           /\ CommitArrive(g, v, 1, Request(v - 1, CommitBatch, 0, FALSE), FALSE)
    \/ \E a \in commits : CommitReply(a)
    \/ \E g \in GenIds : Running /\ Displaced(g)
    \/ \E g \in GenIds : Running /\ DestroyLogData(g)
    \/ \E n \in 0..(MaxGens * MaxVersion), landed \in BOOLEAN : Crash(n, landed)
    \/ RestoreBegin
    \/ RestoreReadNext
    \/ RestoreDone

SpecRestoreGens == Init /\ [][NextRestoreGens]_vars

\* the step is one TLogQueue::readNext of restorePersistentState
RestoreReadsEntry ==
    /\ tl.restore.pc = "replay" /\ tl.restore.pos < Len(dq.entries)
    /\ tl'.restore.pos = tl.restore.pos + 1

\* the entry that this readNext returns
EntryRead == dq.entries[tl.restore.pos + 1]

\* C36: every queue entry that restorePersistentState reads for a generation present
\* in id_data has a version at or above the version of that generation (the entry is
\* replayed, or ASSERT_WE_THINK(qe.version == logData->version.get()) holds), with
\* several generations sharing the recoveryLocation key
C36_ReplayReadsNoSpilledEntry ==
    [][ (RestoreReadsEntry /\ Live(EntryRead.id))
            => EntryRead.version >= id_data[EntryRead.id].version ]_vars

\* restorePersistentState has restored two generations that were both spilled, has
\* started above the start of the queue, and has read for generation 2 the entry of
\* its persisted version, which it did not replay
C36_Witness ==
    /\ tl.restore.pc = "replay"
    /\ kv.cur.recoveryLocation > 0
    /\ tl.restore.pos > kv.cur.recoveryLocation
    /\ Live(1) /\ Live(2)
    /\ kv.cur.gens[1].version >= 1
    /\ kv.cur.gens[2].version >= 1
    /\ \E e \in id_data[2].versionLocation : e.version = kv.cur.gens[2].version

(***************************************************************************)
(* The version of a generation while tLogLock waits.                       *)
(***************************************************************************)
\* C37: from the moment tLogLock marks a generation stopped until it replies, the
\* version of the generation is the stopVersion that tLogLock read, and
\* ASSERT(stopVersion == logData->version.get()) after the wait does not fail
C37_VersionFixedWhileLocking ==
    \A g \in GenIds : Live(g) =>
        /\ id_data[g].lock.pc = "wait" => id_data[g].version = id_data[g].lock.stopVersion
        /\ id_data[g].lock.pc # "failed"

(***************************************************************************)
(* The generation a deferred pop is replayed to.                           *)
(***************************************************************************)
\* popped of a storage tag changes only in a generation that was sent a pop
\* request for the tag
PoppedOnlyWhereAsked ==
    [][ \A g \in GenIds :
          (/\ Live(g) /\ Live(g)'
           /\ poppedVersionFromZero(id_data'[g], T0) # poppedVersionFromZero(id_data[g], T0))
          => hist'.popAsked[g][T0] > 0 ]_vars

\* once the deferred pops were replayed, each of them has reached the generation
\* it was sent to
DeferredPopsKept ==
    ~tl.ignorePopRequest =>
        \A d \in hist.deferred :
            InIdData(d.gen) => poppedVersion(id_data[d.gen], d.tag) >= d.to

\* C38: with several generations served by one process, the replay of toBePopped
\* applies each deferred pop to the generation it was addressed to: it changes
\* popped(tag) in no generation that received no pop request for the tag and
\* drops no deferred pop of another generation
C38_ReplayToAddressedGeneration ==
    PoppedOnlyWhereAsked /\ []DeferredPopsKept

(***************************************************************************)
(* The counter of the recovered tags that were not popped.                 *)
(***************************************************************************)
\* the counter of generation g equals the number of its flagged tags
CountsUnpoppedRecovered(g) ==
    id_data[g].unpoppedRecoveredTags = Cardinality(UnpoppedRecovered(id_data[g]))

\* C39: in every generation that serves requests unpoppedRecoveredTags equals the
\* number of TagData entries whose unpoppedRecovered flag is set, and is never
\* negative, whether the generation recovers from an old one or is brand new
C39_UnpoppedRecoveredTagsCounts ==
    \A g \in GenIds :
        (Live(g) /\ id_data[g].serving) =>
            /\ CountsUnpoppedRecovered(g)
            /\ id_data[g].unpoppedRecoveredTags >= 0

(***************************************************************************)
(* The direction of the peek cursor.                                       *)
(***************************************************************************)
\* the end of a successful reply is not below the begin the request was served for
ReplyEndReachesBegin ==
    (hist.peek # NoReply /\ hist.peek.error = "") => hist.peek.end >= hist.peek.begin

\* the end recorded in the tracker for sequence+1 is not below that begin
RecordedEndReachesBegin ==
    (hist.peek # NoReply /\ hist.peek.error = "" /\ hist.peek.peekId # 0) =>
        \A ver \in RecordedFor(hist.peek.peekId, hist.peek.seq + 1) : ver >= hist.peek.begin

\* C40: the peek cursor never moves backward: for every peek request (any tag, begin
\* and only_spilled) with a successful reply, reply.end is at least the begin the
\* request was served for, and so is the end recorded for sequence+1
C40_PeekCursorNeverBackward ==
    ReplyEndReachesBegin /\ RecordedEndReachesBegin

====
